---- MODULE Spec2Model ----
(***************************************************************************)
(* Steel production dashboard: the synthetic KPI generator (lib/utils.ts), *)
(* the card data lifecycle hook useKPIData, the persistence client         *)
(* cardService (lib/firebase) and the Dashboard component that uses them.  *)
(*                                                                         *)
(* Numbers.  Every KPI number is a fixed-point value in hundredths         *)
(* (12.5 is 1250), which is exact for every value the generators produce   *)
(* (at most two decimals).  A quotient is kept as an exact fraction        *)
(* <<num, den>> until toFixed rounds it.  The two non-finite results of a  *)
(* JavaScript division are the encoded values PosInfinity and NaNValue.    *)
(***************************************************************************)
EXTENDS Integers, Sequences, FiniteSets, TLC

VARIABLES
  \* ---- kpiDataGenerator exercised as a pure function
  calc,          \* last calculateAchievementPercentage call and its result
  generated,     \* last kpiDataGenerator.generateKPIData call and its result
  facadePoint,   \* last useKPIData.generateKPIData call and its result
  converted,     \* last timePeriodUtils.convertToPeriod call and its result
  formatted,     \* last formatUtils.formatPercentage call and its result
  \* ---- components on their own
  kpiCard,       \* one KPICard: its props and its state
  modal,         \* one CreateCardModal: its state and what it handed over
  timers,        \* the intervals of Dashboard, useKPIData and Sidebar
  \* ---- history, read by the properties
  deleted,       \* the cards deleted in the Dashboard and their saves
  \* ---- the browser and the collaborators
  now,           \* Date.now(), a logical millisecond clock
  navOnline,     \* navigator.onLine
  remote,        \* Firestore collection kpi_cards: document id -> document
  lsCards,       \* localStorage 'steel-dashboard-cards' (parsed)
  lsQueue,       \* localStorage 'steel-dashboard-offline-changes' (parsed)
  \* ---- useKPIData state
  hCards,        \* cards
  loading,       \* loading
  error,         \* error (its code, or NoError)
  isOnline,      \* isOnline
  lastSyncTime,  \* lastSyncTime (NoTime is null)
  tasks,         \* the asynchronous calls of the hook that are awaiting
  mounted,       \* the component that uses the hook is mounted
  \* ---- Dashboard state
  dCards,        \* cards
  currentPeriod, \* currentPeriod
  isInterchangeMode,
  pendingCreate, \* CreateCardModal.handleCreate waiting in its 1 s delay
  \* ---- observation of the last step (history, read by the properties)
  lastOp,        \* what the last handler or completion did
  remoteCalls,   \* cardService calls started by the last step
  events,        \* how many more events from outside the run may have
  faults         \* how many more requests may fail while online

callVars == <<calc, generated, facadePoint, converted, formatted>>
compVars == <<kpiCard, modal, timers>>
histVars == <<deleted>>
genVars == <<callVars, compVars, histVars>>
envVars == <<now, navOnline, remote, lsCards, lsQueue>>
hookVars == <<hCards, loading, error, isOnline, lastSyncTime, tasks>>
lifeVars == <<mounted>>
dashVars == <<dCards, currentPeriod, isInterchangeMode, pendingCreate>>
obsVars == <<lastOp, remoteCalls, events, faults>>
vars == <<genVars, envVars, hookVars, lifeVars, dashVars, obsVars>>

(***************************************************************************)
(* Bounds of the model                                                     *)
(***************************************************************************)
\* Math.random() is drawn from the fractions k/RandDen of this many steps,
\* plus the largest fraction below 1.
RandSteps == 2
\* events from outside (calls of a client, network changes, interval ticks,
\* clock ticks, reloads) in one run of the hook alone
MaxEvents == 2
\* events from outside (user actions, network changes, interval ticks,
\* clock ticks, reloads) in one run of the dashboard
MaxDashEvents == 2
\* user actions in one run of deleting and reordering the dashboard's cards
MaxReorderEvents == 4
\* requests that fail although the browser is online, in one run of the
\* hook alone (withRetry gives up after retryAttempts failures)
MaxFaults == 3
\* calls of a client and network changes in one run that is followed to
\* its end
MaxRetryEvents == 1
\* requests that fail although the browser is online, in one run of the
\* dashboard: there a request fails only while the browser is offline
MaxDashFaults == 0
\* calls of a client, and the teardown, in one run that ends with the hook
\* torn down
MaxTeardownEvents == 3

(***************************************************************************)
(* Types (types/index.ts)                                                  *)
(***************************************************************************)
CardType == {"coils", "tons", "shipped", "yield", "efficiency", "quality",
             "energy", "custom"}
TimePeriod == {"daily", "weekly", "monthly"}

(***************************************************************************)
(* Fixed-point numbers                                                     *)
(***************************************************************************)
\* one unit in hundredths
Unit == 10 * 10
PosInfinity == 0 - 1
NaNValue == 0 - 2
\* 10^k for the k that toFixed is called with
Pow10(k) == IF k = 0 THEN 1 ELSE IF k = 1 THEN 10 ELSE 100

\* Number(x.toFixed(decimals)) for x = num/den >= 0: the multiple of
\* 10^-decimals nearest to x, the larger one on a tie.
toFixed(num, den, decimals) ==
  IF den = 0
    THEN (IF num = 0 THEN NaNValue ELSE PosInfinity)
    ELSE LET step == Unit \div Pow10(decimals)
             whole == num \div den
             rest == num % den
         IN  whole * Unit
               + ((2 * rest * Unit + den * step) \div (2 * den * step)) * step

(***************************************************************************)
(* randomUtils: Math.random() is r / RandDen with 0 <= r < RandDen         *)
(***************************************************************************)
RandDen == 1000
RandomDraws == {(i * RandDen) \div RandSteps : i \in 0 .. (RandSteps - 1)}
                 \cup {RandDen - 1}

\* a faulty variant: the scale is one too wide, so the largest draws pass max
between_PastMax(min, max, r) ==
  (((r * (max - min + 2)) \div RandDen) + min) * Unit

\* Math.floor(Math.random() * (max - min + 1)) + min, min and max integers
between(min, max, r) == (((r * (max - min + 1)) \div RandDen) + min) * Unit

\* Number((Math.random() * (max - min) + min).toFixed(decimals)),
\* min and max given in hundredths
betweenDecimal(min, max, decimals, r) ==
  toFixed(r * (max - min) + min * RandDen, RandDen * Unit, decimals)

(***************************************************************************)
(* steelProductionUtils                                                    *)
(***************************************************************************)
generateCoilsPerHour(r) == between(10, 15, r)
generateCoilsBenchmark(r) == between(12, 20, r)
generateCoilWeight(r) == betweenDecimal(1500, 3000, 1, r)
calculateTonsPerHour(coilsPerHour, weightPerCoil) ==
  toFixed(coilsPerHour * weightPerCoil, Unit * Unit, 1)
generateTonsBenchmark(r) == between(250, 500, r)
generateCoilsShipped(r) == between(8, 14, r)
generateShippedBenchmark(r) == between(10, 18, r)
generateYield(r) == betweenDecimal(8500, 9800, 1, r)
generateEfficiency(r) == betweenDecimal(7500, 9500, 1, r)
generateQualityScore(r) == betweenDecimal(9000, 9950, 1, r)
\* a faulty variant: the consumption is drawn from 0 up, not from 0.4
generateEnergyConsumption_FromZero(r) == betweenDecimal(0, 80, 2, r)

generateEnergyConsumption(r) == betweenDecimal(40, 80, 2, r)

(***************************************************************************)
(* kpiDataGenerator                                                        *)
(***************************************************************************)
\* a faulty variant: the 'energy' case is missing, higher is better for every type
calculateAchievementPercentage_NoEnergyCase(actual, benchmark, type) ==
  toFixed(actual * 100, benchmark, 1)

calculateAchievementPercentage(actual, benchmark, type) ==
  IF type = "energy"
    THEN toFixed(benchmark * 100, actual, 1)
    ELSE toFixed(actual * 100, benchmark, 1)

\* the (actual, benchmark) pair of the switch; rs are the Math.random()
\* results in the order the code draws them
GeneratedPair(type, rs) ==
  CASE type = "coils" ->
         <<generateCoilsPerHour(rs[1]), generateCoilsBenchmark(rs[2])>>
    [] type = "tons" ->
         <<calculateTonsPerHour(generateCoilsPerHour(rs[1]),
                                generateCoilWeight(rs[2])),
           generateTonsBenchmark(rs[3])>>
    [] type = "shipped" ->
         <<generateCoilsShipped(rs[1]), generateShippedBenchmark(rs[2])>>
    [] type = "yield" -> <<generateYield(rs[1]), between(92, 96, rs[2])>>
    [] type = "efficiency" ->
         <<generateEfficiency(rs[1]), between(85, 92, rs[2])>>
    [] type = "quality" ->
         <<generateQualityScore(rs[1]), betweenDecimal(9500, 9800, 1, rs[2])>>
    [] type = "energy" ->
         <<generateEnergyConsumption(rs[1]), betweenDecimal(50, 70, 2, rs[2])>>
    [] OTHER -> <<between(50, 100, rs[1]), between(70, 90, rs[2])>>

generateKPIData(type, period, rs) ==
  LET pair == GeneratedPair(type, rs)
  IN  [actual |-> pair[1],
       benchmark |-> pair[2],
       percentage |-> calculateAchievementPercentage(pair[1], pair[2], type)]

(***************************************************************************)
(* timePeriodUtils                                                         *)
(***************************************************************************)
\* a faulty variant: a month is counted as 31 days
getPeriodMultiplier_LongMonth(period) ==
  CASE period = "daily" -> 24
    [] period = "weekly" -> 24 * 7
    [] period = "monthly" -> 24 * 31
    [] OTHER -> 24

getPeriodMultiplier(period) ==
  CASE period = "daily" -> 24
    [] period = "weekly" -> 24 * 7
    [] period = "monthly" -> 24 * 30
    [] OTHER -> 24

\* Number((hourlyValue * multiplier).toFixed(1)), hourlyValue >= 0
convertToPeriod(hourlyValue, period) ==
  toFixed(hourlyValue * getPeriodMultiplier(period), Unit, 1)

(***************************************************************************)
(* formatUtils.formatPercentage                                            *)
(***************************************************************************)
\* percentage >= k in JavaScript: false for NaN, true for Infinity
AtLeast(percentage, k) ==
  \/ percentage = PosInfinity
  \/ percentage >= 0 /\ percentage >= k * Unit

\* Math.round(percentage), percentage >= 0 or not finite
MathRound(percentage) ==
  IF percentage < 0
    THEN percentage
    ELSE ((2 * percentage + Unit) \div (2 * Unit)) * Unit

\* a faulty variant: exactly 100 is not yet excellent
Band_StrictExcellent(percentage) ==
  IF AtLeast(percentage, 100) /\ percentage # 100 * Unit
    THEN [status |-> "excellent", color |-> "#4caf50"]
    ELSE IF AtLeast(percentage, 80)
      THEN [status |-> "good", color |-> "#8bc34a"]
      ELSE IF AtLeast(percentage, 60)
        THEN [status |-> "average", color |-> "#ff9800"]
        ELSE [status |-> "poor", color |-> "#f44336"]

\* the if / else-if chain that sets status and color together
Band(percentage) ==
  IF AtLeast(percentage, 100)
    THEN [status |-> "excellent", color |-> "#4caf50"]
    ELSE IF AtLeast(percentage, 80)
      THEN [status |-> "good", color |-> "#8bc34a"]
      ELSE IF AtLeast(percentage, 60)
        THEN [status |-> "average", color |-> "#ff9800"]
        ELSE [status |-> "poor", color |-> "#f44336"]

\* a faulty variant: the band is taken from the rounded value that is shown
formatPercentage_BandOfRounded(percentage) ==
  [value |-> MathRound(percentage),
   status |-> Band(MathRound(percentage)).status,
   color |-> Band(MathRound(percentage)).color]

\* value is the number before the '%' sign
formatPercentage(percentage) ==
  [value |-> MathRound(percentage),
   status |-> Band(percentage).status,
   color |-> Band(percentage).color]

(***************************************************************************)
(* Strings: a title is the sequence of its characters                      *)
(***************************************************************************)
RECURSIVE trimStart(_)
trimStart(s) ==
  IF s # <<>> /\ Head(s) = " " THEN trimStart(Tail(s)) ELSE s

RECURSIVE trimEnd(_)
trimEnd(s) ==
  IF s # <<>> /\ s[Len(s)] = " " THEN trimEnd(SubSeq(s, 1, Len(s) - 1)) ELSE s

\* String.prototype.trim
trim(s) == trimEnd(trimStart(s))

Repeat(c, n) == [i \in 1 .. n |-> c]

(***************************************************************************)
(* validationUtils                                                         *)
(***************************************************************************)
MaxTitleLength == 50

\* a faulty variant: the title is measured without trimming it
isValidCardTitle_NoTrim(title) == Len(title) > 0 /\ Len(title) <= MaxTitleLength

isValidCardTitle(title) ==
  Len(trim(title)) > 0 /\ Len(trim(title)) <= MaxTitleLength

isValidKPIValue(value) == value # NaNValue /\ value # PosInfinity /\ value >= 0
isValidPeriod(period) == period \in {"daily", "weekly", "monthly"}
isValidCardType(type) ==
  type \in {"coils", "tons", "shipped", "yield", "efficiency", "quality",
            "energy", "custom"}

(***************************************************************************)
(* useKPIData: configuration (the defaults) and generateKPIData            *)
(***************************************************************************)
enableLocalStorage == TRUE
retryAttempts == 3

FallbackData == [actual |-> 0, benchmark |-> 1 * Unit, percentage |-> 0]

\* a faulty variant: the period is not validated
facadeGenerateKPIData_NoPeriodCheck(type, period, rs) ==
  IF ~isValidCardType(type)
    THEN FallbackData
    ELSE LET data == generateKPIData(type, period, rs)
         IN  IF \/ ~isValidKPIValue(data.actual)
                \/ ~isValidKPIValue(data.benchmark)
                \/ ~isValidKPIValue(data.percentage)
               THEN FallbackData
               ELSE data

\* useKPIData.generateKPIData: the generator's point, or the fallback point
\* when an argument or the generated point is invalid
facadeGenerateKPIData(type, period, rs) ==
  IF ~isValidCardType(type) \/ ~isValidPeriod(period)
    THEN FallbackData
    ELSE LET data == generateKPIData(type, period, rs)
         IN  IF \/ ~isValidKPIValue(data.actual)
                \/ ~isValidKPIValue(data.benchmark)
                \/ ~isValidKPIValue(data.percentage)
               THEN FallbackData
               ELSE data

(***************************************************************************)
(* Cards, documents and card ids                                           *)
(*   an id is <<kind, n, s>>: <<"default", k, 0>> is 'card-k' of the       *)
(*   default cards, <<"card-", t, 0>> is `card-${Date.now()}` and          *)
(*   <<"card_", t, s>> is `card_${Date.now()}_${random suffix}`            *)
(***************************************************************************)
PlaceholderData == [actual |-> 0, benchmark |-> 0, percentage |-> 0]

Card(id, title, type, position, data) ==
  [id |-> id, title |-> title, type |-> type, position |-> position,
   data |-> data]

Meta(card) ==
  [id |-> card.id, title |-> card.title, type |-> card.type,
   position |-> card.position]

Ids(cards) == {cards[i].id : i \in DOMAIN cards}

\* cards.map(card => ({...card, data: generateKPIData(card.type, period)}))
WithData(cards, period, rs) ==
  [i \in DOMAIN cards |->
     [cards[i] EXCEPT
        !.data = facadeGenerateKPIData(cards[i].type, period, rs)]]

\* cards.map((card, index) => ({...card, position: index}))
Renumber(cards) ==
  [i \in DOMAIN cards |-> [cards[i] EXCEPT !.position = i - 1]]

ValidCard(card) == isValidCardTitle(card.title) /\ isValidCardType(card.type)

\* cardsToSave.filter(card => isValidCardTitle(...) && isValidCardType(...))
ValidCards(cards) == SelectSeq(cards, ValidCard)

\* the order of document names in Firestore (string order of the ids)
IdKey(id) ==
  CASE id[1] = "default" /\ id[2] = 1 -> <<0, 0, 0>>
    [] id[1] = "card-" -> <<1, id[2], id[3]>>
    [] id[1] = "default" -> <<2, id[2], 0>>
    [] OTHER -> <<3, id[2], id[3]>>

IdLess(a, b) ==
  LET x == IdKey(a)
      y == IdKey(b)
  IN  \/ x[1] < y[1]
      \/ x[1] = y[1] /\ x[2] < y[2]
      \/ x[1] = y[1] /\ x[2] = y[2] /\ x[3] < y[3]

(***************************************************************************)
(* cardService over the collection kpi_cards                               *)
(***************************************************************************)
\* setDoc(cardRef, {id, title, type, position, updatedAt, isActive: true},
\*        {merge: true})
SetDocMerge(rem, card) ==
  [id \in DOMAIN rem \cup {card.id} |->
     IF id = card.id
       THEN [id |-> card.id, title |-> card.title, type |-> card.type,
             position |-> card.position, isActive |-> TRUE]
       ELSE rem[id]]

\* saveCards: one setDoc per card, all started at once (Promise.all); the
\* collection after the writes of the cards at the indices in done, of the
\* first n cards
RECURSIVE saveCardsWrites(_, _, _, _)
saveCardsWrites(rem, cards, n, done) ==
  IF n = 0 THEN rem
  ELSE LET before == saveCardsWrites(rem, cards, n - 1, done)
       IN  IF n \in done THEN SetDocMerge(before, cards[n]) ELSE before

DocLess(a, b) ==
  \/ a.position < b.position
  \/ a.position = b.position /\ IdLess(a.id, b.id)

\* query(cardsRef, orderBy('position', 'asc'))
RECURSIVE OrderByPosition(_)
OrderByPosition(docs) ==
  IF docs = {} THEN <<>>
  ELSE LET first == CHOOSE d \in docs : \A e \in docs \ {d} : DocLess(d, e)
       IN  <<first>> \o OrderByPosition(docs \ {first})

\* a faulty variant: inactive cards are not skipped
loadCardsFromSnapshot_KeepInactive(rem) ==
  LET docs == OrderByPosition({rem[id] : id \in DOMAIN rem})
  IN  [i \in DOMAIN docs |->
         Card(docs[i].id, docs[i].title, docs[i].type, docs[i].position,
              PlaceholderData)]

\* what loadCards builds from the query snapshot
loadCardsFromSnapshot(rem) ==
  LET docs == OrderByPosition({rem[id] : id \in DOMAIN rem})
      active == SelectSeq(docs, LAMBDA d : d.isActive # FALSE)
  IN  [i \in DOMAIN active |->
         Card(active[i].id, active[i].title, active[i].type,
              active[i].position, PlaceholderData)]

\* cardService.loadCards: the cards, or [] when getDocs fails (the catch
\* block returns [], it does not throw)
loadCards(rem, fetched) ==
  IF fetched THEN [ok |-> TRUE, value |-> loadCardsFromSnapshot(rem)]
  ELSE [ok |-> TRUE, value |-> <<>>]

(***************************************************************************)
(* useKPIData: the state the hook's functions read and write, as a record  *)
(*   cards, loading, error, lastSyncTime  the hook's React state           *)
(*   tasks                                the calls awaiting withRetry     *)
(*   lsCards, lsQueue                     the two localStorage keys        *)
(*   calls                                cardService calls started        *)
(*   ret                                  the value a call returned        *)
(***************************************************************************)
NoError == "none"
NoTime == 0 - 1
\* every event starts at most one awaiting call, the mount starts two
Slots == 1 .. (MaxReorderEvents + 3)

\* no card, no update: what a call that is not about a card carries
NoId == <<"none", 0, 0>>

\* an update of updateCard: which of title and position it carries
Updates(hasTitle, title, hasPosition, position) ==
  [hasTitle |-> hasTitle, title |-> title, hasPosition |-> hasPosition,
   position |-> position]

NoUpdates == Updates(FALSE, <<>>, FALSE, 0)

\* a cardService call: its name, the cards and the document id it is given
Call(fn, cards, id) == [fn |-> fn, cards |-> cards, id |-> id]

Idle ==
  [kind |-> "idle", caller |-> "none", cards |-> <<>>, cardId |-> NoId,
   updates |-> NoUpdates, stage |-> "none", attempts |-> 0, calls |-> 0,
   inflight |-> 0, pc |-> "idle", timerRef |-> FALSE]

\* a call that has entered withRetry(operation, context) and invoked the
\* operation for the first time
Task(kind, caller, cards, cardId, updates, stage) ==
  [kind |-> kind, caller |-> caller, cards |-> cards, cardId |-> cardId,
   updates |-> updates, stage |-> stage, attempts |-> retryAttempts,
   calls |-> 1, inflight |-> 1, pc |-> "op", timerRef |-> FALSE]

HasFreeSlot(ts) == \E s \in Slots : ts[s].kind = "idle"
FreeSlots(ts) == {s \in Slots : ts[s].kind = "idle"}
FreeSlot(ts) == CHOOSE s \in FreeSlots(ts) : \A r \in FreeSlots(ts) : s <= r

\* the awaiting calls have no names: the ones left move up when one ends
Compact(ts) ==
  LET busy == SelectSeq(ts, LAMBDA t : t.kind # "idle")
  IN  [s \in Slots |-> IF s <= Len(busy) THEN busy[s] ELSE Idle]

StartTask(h, task, call) ==
  [h EXCEPT !.tasks[FreeSlot(h.tasks)] = task, !.calls = Append(@, call)]

\* a faulty variant: the retry is started without consuming an attempt
withRetryAgain_SameAttempts(t) ==
  [t EXCEPT !.pc = "op", !.calls = @ + 1, !.inflight = @ + 1,
            !.timerRef = FALSE]

\* withRetry, the delay is over: return withRetry(operation, context,
\* attempts - 1), which invokes the operation again
withRetryAgain(t) ==
  [t EXCEPT !.pc = "op", !.attempts = @ - 1, !.calls = @ + 1,
            !.inflight = @ + 1, !.timerRef = FALSE]

\* withRetry, the catch block: retry after the delay while attempts > 1
withRetryCatches(t) == t.attempts > 1

\* withRetry, the operation threw and attempts > 1: await the delay timer
withRetryDelay(t) == [t EXCEPT !.pc = "delay", !.inflight = @ - 1]

\* retryTimeoutRef.current = setTimeout(resolve, retryDelay) by the call in
\* slot s: the one ref now holds this timer, and no longer the timer of any
\* other call (timerRef marks the call whose pending timer the ref holds)
setRetryTimeout(ts, s) ==
  [r \in Slots |->
     IF r = s THEN [withRetryDelay(ts[r]) EXCEPT !.timerRef = TRUE]
              ELSE [ts[r] EXCEPT !.timerRef = FALSE]]

\* the cleanup on unmount: clearTimeout(retryTimeoutRef.current); the
\* promise of a cleared timer never resolves
clearRetryTimeout(ts) ==
  [r \in Slots |->
     IF ts[r].pc = "delay" /\ ts[r].timerRef
       THEN [ts[r] EXCEPT !.pc = "cleared", !.timerRef = FALSE]
       ELSE ts[r]]

\* the entry saveCardsToFirebase pushes when offline
OfflineChange(cards, t) ==
  [action |-> "save", cards |-> cards, timestamp |-> t]

\* a faulty variant: the offline branch replaces the queue by the new entry
QueuePush_Replace(queue, change) == <<change>>

\* offlineChanges.push(newChange)
QueuePush(queue, change) == Append(queue, change)

\* saveCardsToFirebase up to its first await; online is the isOnline of the
\* render whose closure is called
saveCardsToFirebase(h, cardsToSave, online, caller, t) ==
  LET validCards == ValidCards(cardsToSave)
      h1 == [h EXCEPT !.loading = "loading", !.error = NoError]
  IN  IF online
        THEN StartTask(h1, Task("save", caller, validCards, NoId, NoUpdates,
                            "none"),
                       Call("saveCards", validCards, NoId))
        ELSE IF enableLocalStorage
          THEN [h1 EXCEPT
                  !.lsQueue = QueuePush(@, OfflineChange(validCards, t)),
                  !.lsCards = validCards,
                  !.loading = "succeeded"]
          ELSE [h1 EXCEPT !.loading = "succeeded"]

\* saveCardsToFirebase after withRetry resolved
saveResolved(h, task, t) ==
  IF enableLocalStorage
    THEN [h EXCEPT !.lastSyncTime = t, !.lsQueue = <<>>,
                   !.lsCards = task.cards, !.loading = "succeeded"]
    ELSE [h EXCEPT !.lastSyncTime = t, !.loading = "succeeded"]

\* saveCardsToFirebase, the catch block
saveRejected(h, task) ==
  [h EXCEPT !.error = "SAVE_CARDS_ERROR", !.loading = "failed"]

\* loadCardsFromFirebase up to its first await
loadCardsFromFirebase(h, online, caller, rs) ==
  LET h1 == [h EXCEPT !.loading = "loading", !.error = NoError]
  IN  IF online
        THEN StartTask(h1, Task("load", caller, <<>>, NoId, NoUpdates, "none"),
                       Call("loadCards", <<>>, NoId))
        ELSE LET loadedCards == IF enableLocalStorage THEN h.lsCards ELSE <<>>
                 cardsWithData == WithData(loadedCards, "daily", rs)
             IN  [h1 EXCEPT !.cards = cardsWithData, !.loading = "succeeded",
                            !.ret = cardsWithData]

\* loadCardsFromFirebase after withRetry resolved with loadedCards
loadResolved(h, loadedCards, t, rs) ==
  LET cardsWithData == WithData(loadedCards, "daily", rs)
      h1 == IF enableLocalStorage
              THEN [h EXCEPT !.lastSyncTime = t, !.lsCards = loadedCards]
              ELSE [h EXCEPT !.lastSyncTime = t]
  IN  [h1 EXCEPT !.cards = cardsWithData, !.loading = "succeeded",
                 !.ret = cardsWithData]

\* loadCardsFromFirebase, the catch block: the snapshot as last resort
loadRejected(h, rs) ==
  LET h1 == [h EXCEPT !.error = "LOAD_CARDS_ERROR", !.loading = "failed"]
      fallbackCards == IF enableLocalStorage THEN h.lsCards ELSE <<>>
      cardsWithData == WithData(fallbackCards, "daily", rs)
  IN  IF Len(fallbackCards) > 0
        THEN [h1 EXCEPT !.cards = cardsWithData, !.ret = cardsWithData]
        ELSE [h1 EXCEPT !.ret = <<>>]

\* {...card, ...updates}
ApplyUpdates(card, updates) ==
  [card EXCEPT
     !.title = IF updates.hasTitle THEN updates.title ELSE @,
     !.position = IF updates.hasPosition THEN updates.position ELSE @]

\* if (updates.title): the title is present and not the empty string
TitleTruthy(updates) == updates.hasTitle /\ updates.title # <<>>

\* the error code the catch block of each function gives its error
ErrorCode(kind) ==
  CASE kind = "save" -> "SAVE_CARDS_ERROR"
    [] kind = "load" -> "LOAD_CARDS_ERROR"
    [] kind = "create" -> "CREATE_CARD_ERROR"
    [] kind = "update" -> "UPDATE_CARD_ERROR"
    [] OTHER -> "DELETE_CARD_ERROR"

\* createCard up to its first await; ret is "resolved" (with the id of the
\* new card), "rejected" when the validation throws, or "pending"
createCard(h, cardData, online, t, suffix, rs) ==
  IF ~isValidCardTitle(cardData.title) \/ ~isValidCardType(cardData.type)
    THEN [h EXCEPT !.error = "CREATE_CARD_ERROR", !.ret = "rejected"]
    ELSE LET newCard == Card(<<"card_", t, suffix>>, cardData.title,
                             cardData.type, cardData.position,
                             facadeGenerateKPIData(cardData.type, "daily", rs))
             h1 == [h EXCEPT !.cards = Append(@, newCard)]
         IN  IF online
               THEN StartTask([h1 EXCEPT !.ret = "pending"],
                              Task("create", "client",
                                   <<[newCard EXCEPT !.id = NoId]>>,
                                   newCard.id, NoUpdates, "none"),
                              Call("createCard",
                                   <<[newCard EXCEPT !.id = NoId]>>, NoId))
               ELSE [h1 EXCEPT !.ret = "resolved"]

\* prevCards.map(card => card.id === cardId ? {...card, ...updates} : card)
updateCardLocal(cards, cardId, updates) ==
  [i \in DOMAIN cards |->
     IF cards[i].id = cardId THEN ApplyUpdates(cards[i], updates) ELSE cards[i]]

\* updateCard up to its first await
updateCard(h, cardId, updates, online) ==
  LET h1 == [h EXCEPT !.cards = updateCardLocal(@, cardId, updates)]
  IN  IF online /\ TitleTruthy(updates)
        THEN StartTask([h1 EXCEPT !.ret = "pending"],
                       Task("update", "client", <<>>, cardId, updates, "title"),
                       Call("updateCardTitle", <<>>, cardId))
        ELSE IF online /\ updates.hasPosition
          THEN StartTask([h1 EXCEPT !.ret = "pending"],
                         Task("update", "client", <<>>, cardId, updates,
                              "position"),
                         Call("updateCardPosition", <<>>, cardId))
          ELSE [h1 EXCEPT !.ret = "resolved"]

\* prevCards.filter(card => card.id !== cardId)
deleteCardLocal(cards, cardId) == SelectSeq(cards, LAMBDA c : c.id # cardId)

\* deleteCard up to its first await
deleteCard(h, cardId, online) ==
  LET h1 == [h EXCEPT !.cards = deleteCardLocal(@, cardId)]
  IN  IF online
        THEN StartTask([h1 EXCEPT !.ret = "pending"],
                       Task("delete", "client", <<>>, cardId, NoUpdates,
                            "none"),
                       Call("deleteCard", <<>>, cardId))
        ELSE [h1 EXCEPT !.ret = "resolved"]

\* a faulty variant: a rejected call takes its optimistic change back
callRejected_Rollback(h, task) ==
  [h EXCEPT !.error = ErrorCode(task.kind),
            !.cards = IF task.kind = "create"
                        THEN deleteCardLocal(@, task.cardId) ELSE @]

\* createCard, updateCard, deleteCard: the catch block
callRejected(h, task) == [h EXCEPT !.error = ErrorCode(task.kind)]

\* refreshData
refreshData(cards, rs) == WithData(cards, "daily", rs)

\* the call the operation of a task makes each time it is invoked
CallOf(task) ==
  CASE task.kind = "save" -> Call("saveCards", task.cards, NoId)
    [] task.kind = "load" -> Call("loadCards", <<>>, NoId)
    [] task.kind = "create" -> Call("createCard", task.cards, NoId)
    [] task.kind = "update" /\ task.stage = "title" ->
         Call("updateCardTitle", <<>>, task.cardId)
    [] task.kind = "update" ->
         Call("updateCardPosition", <<>>, task.cardId)
    [] OTHER -> Call("deleteCard", <<>>, task.cardId)

\* handleOnline: offlineChanges.forEach(change => { if (change.action ===
\* 'save' && change.cards) saveCardsToFirebase(change.cards) }), from
\* entry i on, with the saveCardsToFirebase of the closure (its isOnline)
RECURSIVE replayOfflineChanges(_, _, _, _, _)
replayOfflineChanges(h, offlineChanges, i, online, t) ==
  IF i > Len(offlineChanges) THEN h
  ELSE LET change == offlineChanges[i]
           h1 == IF change.action = "save"
                   THEN saveCardsToFirebase(h, change.cards, online,
                                            "replay", t)
                   ELSE h
       IN  replayOfflineChanges(h1, offlineChanges, i + 1, online, t)

(***************************************************************************)
(* Dashboard                                                               *)
(***************************************************************************)
TitleCoils ==
  <<"C", "o", "i", "l", "s", " ", "P", "r", "o", "d", "u", "c", "t", "i",
    "o", "n">>
TitleTons ==
  <<"T", "o", "n", "s", " ", "P", "r", "o", "d", "u", "c", "t", "i", "o",
    "n">>
TitleShipped ==
  <<"C", "o", "i", "l", "s", " ", "S", "h", "i", "p", "p", "e", "d">>

\* initializeDefaultCards
initializeDefaultCards(period, rs) ==
  <<Card(<<"default", 1, 0>>, TitleCoils, "coils", 0,
         facadeGenerateKPIData("coils", period, rs)),
    Card(<<"default", 2, 0>>, TitleTons, "tons", 1,
         facadeGenerateKPIData("tons", period, rs)),
    Card(<<"default", 3, 0>>, TitleShipped, "shipped", 2,
         facadeGenerateKPIData("shipped", period, rs))>>

\* Array.prototype.sort((a, b) => a.position - b.position): stable
RECURSIVE InsertByPosition(_, _)
InsertByPosition(sorted, card) ==
  IF sorted = <<>> THEN <<card>>
  ELSE IF sorted[Len(sorted)].position <= card.position
    THEN Append(sorted, card)
    ELSE Append(InsertByPosition(SubSeq(sorted, 1, Len(sorted) - 1), card),
                sorted[Len(sorted)])

RECURSIVE sortByPosition(_)
sortByPosition(cards) ==
  IF cards = <<>> THEN <<>>
  ELSE InsertByPosition(sortByPosition(SubSeq(cards, 1, Len(cards) - 1)),
                        cards[Len(cards)])

\* the render that follows every state change sorts the cards array of the
\* state in place: cards.sort(...).map(...)
Render(cards) == sortByPosition(cards)

\* cards.findIndex(card => card.id === cardId), from 1; 0 when there is none
findIndex(cards, cardId) ==
  IF \E i \in DOMAIN cards : cards[i].id = cardId
    THEN CHOOSE i \in DOMAIN cards :
           /\ cards[i].id = cardId
           /\ \A j \in DOMAIN cards : cards[j].id = cardId => i <= j
    ELSE 0

Swap(cards, i, j) ==
  [k \in DOMAIN cards |->
     IF k = i THEN cards[j] ELSE IF k = j THEN cards[i] ELSE cards[k]]

\* a faulty variant: the tick also renumbers the cards it refreshes from 1
updateAllCardData_Renumber(cards, period, rs) ==
  [i \in DOMAIN cards |->
     [cards[i] EXCEPT
        !.data = facadeGenerateKPIData(cards[i].type, period, rs),
        !.position = i]]

\* updateAllCardData
updateAllCardData(cards, period, rs) == WithData(cards, period, rs)

\* handleCreateCard: the new list [...cards, newCard]
handleCreateCard(cards, cardData, period, t, rs) ==
  Append(cards,
         Card(<<"card-", t, 0>>, cardData.title, cardData.type, Len(cards),
              facadeGenerateKPIData(cardData.type, period, rs)))

\* a faulty variant: the card at the position of the deleted one is kept and the
\* list is not renumbered
handleDeleteCard_NoRenumber(cards, cardId) ==
  SelectSeq(cards, LAMBDA c : c.id # cardId)

\* handleDeleteCard: the new list
handleDeleteCard(cards, cardId) ==
  Renumber(SelectSeq(cards, LAMBDA c : c.id # cardId))

\* moveCardUp: the new list (with cardIndex > 0)
moveCardUp(cards, cardId) ==
  LET cardIndex == findIndex(cards, cardId)
  IN  Renumber(Swap(cards, cardIndex, cardIndex - 1))

\* moveCardDown: the new list (with cardIndex < cards.length - 1)
moveCardDown(cards, cardId) ==
  LET cardIndex == findIndex(cards, cardId)
  IN  Renumber(Swap(cards, cardIndex, cardIndex + 1))

(***************************************************************************)
(* The state machine                                                       *)
(***************************************************************************)
\* the Math.random() results of one call: every card of one call gets the
\* same draws, from both ends of the range
StateDraws == {<<r, r, r>> : r \in {0, RandDen - 1}}

\* the draws of the calls that load or create cards
LoadDraws == {<<0, 0, 0>>}

NoPending == [pending |-> FALSE, cards |-> <<>>, online |-> FALSE,
              period |-> "daily",
              cardData |-> [title |-> <<>>, type |-> "none"]]

\* what an observed step was about: a named input, a number, a card id, a
\* list of cards, an update, the cards cardService.loadCards returned
NoArg == [str |-> "", num |-> 0, id |-> NoId, cards |-> <<>>,
          updates |-> NoUpdates, loaded |-> <<>>]

Op(name, kind, calls, arg) ==
  [name |-> name, kind |-> kind, calls |-> calls, arg |-> arg]

NoCalc == [done |-> FALSE, type |-> "coils", actual |-> 0, benchmark |-> 0,
           result |-> 0]
NoGenerated == [done |-> FALSE, type |-> "coils", actual |-> 0,
                benchmark |-> 0, percentage |-> 0]

AllIdle == [s \in Slots |-> Idle]

\* the hook's state as the record its functions work on
Hook ==
  [cards |-> hCards, loading |-> loading, error |-> error,
   lastSyncTime |-> lastSyncTime, tasks |-> tasks, lsCards |-> lsCards,
   lsQueue |-> lsQueue, calls |-> <<>>, ret |-> <<>>]

\* the hook of a page that has just been opened over the given localStorage
FreshHook(cards, queue) ==
  [cards |-> <<>>, loading |-> "idle", error |-> NoError,
   lastSyncTime |-> NoTime, tasks |-> AllIdle, lsCards |-> cards,
   lsQueue |-> queue, calls |-> <<>>, ret |-> <<>>]

Commit(h) ==
  /\ hCards' = h.cards
  /\ loading' = h.loading
  /\ error' = h.error
  /\ lastSyncTime' = h.lastSyncTime
  /\ tasks' = Compact(h.tasks)
  /\ lsCards' = h.lsCards
  /\ lsQueue' = h.lsQueue
  /\ remoteCalls' = h.calls

\* useKPIData's effects on mount.  The first render has isOnline = true (the
\* useState default): the mount effect calls loadCardsFromFirebase with it,
\* the online effect sets isOnline to navigator.onLine; when that changes
\* isOnline the next render's loadCardsFromFirebase is a new function and the
\* mount effect calls it again.
mountHook(h, nav, rs) ==
  LET h1 == loadCardsFromFirebase(h, TRUE, "hook", rs)
  IN  IF nav THEN h1 ELSE loadCardsFromFirebase(h1, FALSE, "hook", rs)

\* Dashboard's effect on isClient: initializeDefaultCards(); loadSavedCards()
\* with the hook functions of the second render
mountDashboardHook(h, nav, rs) == loadCardsFromFirebase(h, nav, "dash", rs)

\* loadSavedCards: if (savedCards && savedCards.length > 0) setCards(...)
loadSavedCardsResult(cards, savedCards) ==
  IF Len(savedCards) > 0 THEN Render(savedCards) ELSE cards

mountDashboardCards(h, nav, rs) ==
  LET defaults == Render(initializeDefaultCards("daily", rs))
  IN  IF nav THEN defaults ELSE loadSavedCardsResult(defaults, h.ret)

(***************************************************************************)
(* Rendered values: the number shown (in hundredths), the number of        *)
(* decimals it is printed with, and the text that follows it               *)
(***************************************************************************)
Text(num, decimals, unit) ==
  [num |-> num, decimals |-> decimals, unit |-> unit]

\* formatUtils.formatValue(value, type, period), value >= 0
formatValue(value, type, period) ==
  LET periodValue == convertToPeriod(value, period)
  IN  CASE type = "tons" -> Text(toFixed(periodValue, Unit, 1), 1, " tons")
        [] type \in {"coils", "shipped"} ->
             Text(MathRound(periodValue), 0, " coils")
        [] type \in {"yield", "efficiency", "quality"} ->
             Text(toFixed(value, Unit, 1), 1, "%")
        [] type = "energy" -> Text(toFixed(value, Unit, 2), 2, " MWh/ton")
        [] OTHER -> Text(MathRound(periodValue), 0, "")

(***************************************************************************)
(* KPICard                                                                 *)
(***************************************************************************)
\* KPICard's own formatValue(value, type)
cardFormatValue(value, type) ==
  IF type = "tons"
    THEN Text(toFixed(value, Unit, 1), 1, " tons")
    ELSE Text(MathRound(value), 0, " coils")

\* KPICard's own getPeriodMultiplier
cardGetPeriodMultiplier(period) ==
  CASE period = "daily" -> 24
    [] period = "weekly" -> 24 * 7
    [] period = "monthly" -> 24 * 30
    [] OTHER -> 24

calculatePeriodValues(currentData, period) ==
  [actual |-> currentData.actual * cardGetPeriodMultiplier(period),
   benchmark |-> currentData.benchmark * cardGetPeriodMultiplier(period),
   percentage |-> currentData.percentage]

\* the if / else-if chain of the effect that calls setTrend
Trend(actual, previousValue) ==
  IF actual > previousValue
    THEN "up"
    ELSE IF actual < previousValue THEN "down" ELSE "stable"

\* before is the actual value of the card.data the card had before its
\* last refresh (history); refreshes counts the refreshes since the mount
NoKPICard ==
  [mounted |-> FALSE, type |-> "coils", period |-> "daily",
   data |-> PlaceholderData, currentData |-> PlaceholderData,
   previousValue |-> 0, trend |-> "stable", before |-> 0, refreshes |-> 0]

\* the effect on [card.data]: it reads the currentData and previousValue of
\* the render it was made in
cardDataEffect(k, data) ==
  [k EXCEPT !.previousValue = k.currentData.actual,
            !.currentData = data,
            !.trend = Trend(data.actual, k.previousValue)]

\* the first render, with the useState initial values, and its effect
mountKPICard(type, period, data) ==
  cardDataEffect([NoKPICard EXCEPT !.mounted = TRUE, !.type = type,
                                   !.period = period, !.data = data,
                                   !.currentData = data],
                 data)

\* a render with a new card.data, and its effect
refreshKPICard(k, period, data) ==
  cardDataEffect([k EXCEPT !.period = period, !.data = data,
                           !.before = k.data.actual,
                           !.refreshes = @ + 1],
                 data)

\* the value shown in the card: formatValue(periodValues.actual, card.type)
actualValueText(k) ==
  cardFormatValue(calculatePeriodValues(k.currentData, k.period).actual,
                  k.type)

\* CreateCardModal: the useState values of the open modal, the delays of
\* handleCreate that are still running (each with the card it will hand
\* over), and the card the last onCreate call was given
NoHanded == [done |-> FALSE, title |-> <<>>, type |-> "coils"]

NoModal ==
  [open |-> FALSE, selectedType |-> "coils", customTitle |-> <<>>,
   isCreating |-> FALSE, step |-> "select", delays |-> {},
   handed |-> NoHanded]

\* the intervals: which components are mounted, the interval ids their
\* effects hold (0 when none), the intervals scheduled in the browser as
\* pairs <<id, owner>>, the id setInterval returns next, and the owner of
\* the interval callback that ran last
NoTimers ==
  [dashMounted |-> FALSE, isClient |-> FALSE, interval |-> 0,
   hookMounted |-> FALSE, refreshIntervalRef |-> 0,
   sidebarMounted |-> FALSE, timeInterval |-> 0,
   scheduled |-> {}, nextId |-> 1, ran |-> "none"]

\* waiting: the ids handleDeleteCard was called with online, each with the
\* cards of the save it started; saved: the ids whose save has resolved;
\* reloaded: the ids whose save had resolved when the page was last loaded
NoDeleted == [waiting |-> {}, saved |-> {}, reloaded |-> {}]

\* handleDeleteCard(cardId) has started a save of updatedCards
deleteStarted(d, cardId, updatedCards, online) ==
  IF online
    THEN [d EXCEPT !.waiting = @ \cup {<<cardId, ValidCards(updatedCards)>>}]
    ELSE d

\* the saveCards of task t has resolved
deleteSaved(d, t) ==
  IF t.kind = "save" /\ t.caller = "dash"
    THEN [d EXCEPT
            !.waiting = {w \in d.waiting : w[2] # t.cards},
            !.saved = @ \cup {w[1] : w \in {v \in d.waiting :
                                               v[2] = t.cards}}]
    ELSE d

\* the page is loaded again: the calls that were awaiting are gone
deleteReloaded(d) == [d EXCEPT !.waiting = {}, !.reloaded = d.saved]

NoFacadePoint == [done |-> FALSE, type |-> "coils", period |-> "daily",
                  raw |-> FallbackData, result |-> FallbackData]
NoConverted == [done |-> FALSE, hourlyValue |-> 0, period |-> "daily",
                result |-> 0]
NoFormatted == [done |-> FALSE, percentage |-> 0, value |-> 0,
                status |-> "poor", color |-> "#f44336"]

GenIdle ==
  /\ calc = NoCalc
  /\ generated = NoGenerated
  /\ facadePoint = NoFacadePoint
  /\ converted = NoConverted
  /\ formatted = NoFormatted
  /\ kpiCard = NoKPICard
  /\ modal = NoModal
  /\ timers = NoTimers
  /\ deleted = NoDeleted

DashIdle ==
  /\ dCards = <<>>
  /\ currentPeriod = "daily"
  /\ isInterchangeMode = FALSE
  /\ pendingCreate = NoPending

\* the page opened for the first time: nothing stored anywhere
InitEnv ==
  /\ now = 0
  /\ navOnline \in BOOLEAN
  /\ remote = <<>>
  /\ isOnline = navOnline
  /\ mounted = TRUE
  /\ lastOp = Op("mount", "none", 0, NoArg)

InitHookFrom(h) ==
  /\ hCards = h.cards
  /\ loading = h.loading
  /\ error = h.error
  /\ lastSyncTime = h.lastSyncTime
  /\ tasks = h.tasks
  /\ lsCards = h.lsCards
  /\ lsQueue = h.lsQueue
  /\ remoteCalls = h.calls

\* the hook alone, mounted by a client component
InitFacade ==
  /\ GenIdle
  /\ events = MaxEvents
  /\ faults = MaxFaults
  /\ InitEnv
  /\ DashIdle
  /\ \E rs \in LoadDraws :
       InitHookFrom(mountHook(FreshHook(<<>>, <<>>), navOnline, rs))

\* the Dashboard, which mounts the hook
Init ==
  /\ GenIdle
  /\ events = MaxDashEvents
  /\ faults = MaxDashFaults
  /\ InitEnv
  /\ currentPeriod = "daily"
  /\ isInterchangeMode = FALSE
  /\ pendingCreate = NoPending
  /\ \E rs \in LoadDraws :
       LET h1 == mountHook(FreshHook(<<>>, <<>>), navOnline, rs)
           h2 == mountDashboardHook(h1, navOnline, rs)
       IN  /\ InitHookFrom(h2)
           /\ dCards = mountDashboardCards(h2, navOnline, rs)

\* ---- the browser ------------------------------------------------------
\* one more event from outside
\* an event from outside reaches the hook while it is mounted
Event == mounted /\ events > 0 /\ events' = events - 1 /\ faults' = faults

\* a request that could have succeeded fails: one of the faults of the run
Fault(possible) ==
  IF possible THEN faults > 0 /\ faults' = faults - 1 ELSE faults' = faults

\* a write needs the network (a batch of no writes does not); updateDoc
\* needs the document to exist
CanSucceed(t) ==
  /\ navOnline \/ (t.kind = "save" /\ t.cards = <<>>)
  /\ t.kind \in {"update", "delete"} => t.cardId \in DOMAIN remote

\* a millisecond passes
Tick ==
  /\ Event
  /\ now' = now + 1
  /\ lastOp' = Op("tick", "none", 0, NoArg)
  /\ remoteCalls' = <<>>
  /\ UNCHANGED <<genVars, mounted, navOnline, remote, lsCards, lsQueue, hookVars,
                 dashVars>>

\* the 'online' event: handleOnline runs with the closure of the last
\* render (isOnline as it was), then the render it causes runs the mount
\* effect again with the new loadCardsFromFirebase
GoOnline ==
  /\ Event
  /\ ~navOnline
  /\ navOnline' = TRUE
  /\ isOnline' = TRUE
  /\ \E rs \in LoadDraws :
       LET offlineChanges == IF enableLocalStorage THEN lsQueue ELSE <<>>
           h1 == replayOfflineChanges(Hook, offlineChanges, 1, isOnline, now)
       IN  /\ HasFreeSlot(h1.tasks)
           /\ Commit(loadCardsFromFirebase(h1, TRUE, "hook", rs))
  /\ lastOp' = Op("handleOnline", "none", 0,
                  [NoArg EXCEPT !.num = Len(lsQueue)])
  /\ UNCHANGED <<genVars, mounted, now, remote, dashVars>>

\* the 'offline' event: handleOffline, then the mount effect of the next
\* render loads from localStorage
GoOffline ==
  /\ Event
  /\ navOnline
  /\ navOnline' = FALSE
  /\ isOnline' = FALSE
  /\ \E rs \in LoadDraws :
       Commit(loadCardsFromFirebase(Hook, FALSE, "hook", rs))
  /\ lastOp' = Op("handleOffline", "none", 0, NoArg)
  /\ UNCHANGED <<genVars, mounted, now, remote, dashVars>>

\* the hook's interval: refreshData
HookRefresh ==
  /\ Event
  /\ \E rs \in StateDraws : hCards' = refreshData(hCards, rs)
  /\ lastOp' = Op("refreshData", "none", 0, NoArg)
  /\ remoteCalls' = <<>>
  /\ UNCHANGED <<genVars, mounted, envVars, loading, error, isOnline, lastSyncTime,
                 tasks, dashVars>>

\* ---- the remote calls in flight settle --------------------------------
\* the random suffix of an id (two values stand for the 36^9 of the code)
Suffixes == {0, 1}

\* the collection after the operation of task t succeeded
remoteAfterSuccess(rem, t, time, suffix) ==
  CASE t.kind = "save" ->
         saveCardsWrites(rem, t.cards, Len(t.cards), DOMAIN t.cards)
    [] t.kind = "create" ->
         \* cardService.createCard makes its own id for the document
         SetDocMerge(rem, [id |-> <<"card_", time, suffix>>,
                           title |-> t.cards[1].title,
                           type |-> t.cards[1].type,
                           position |-> t.cards[1].position])
    [] t.kind = "update" /\ t.stage = "title" ->
         [rem EXCEPT ![t.cardId].title = t.updates.title]
    [] t.kind = "update" ->
         [rem EXCEPT ![t.cardId].position = t.updates.position]
    [] t.kind = "delete" -> [rem EXCEPT ![t.cardId].isActive = FALSE]
    [] OTHER -> rem

\* what the awaiting function does when its withRetry resolves
afterResolved(h, t, time) ==
  CASE t.kind = "save" -> saveResolved(h, t, time)
    [] t.kind = "update" /\ t.stage = "title" /\ t.updates.hasPosition ->
         StartTask(h, Task("update", t.caller, <<>>, t.cardId, t.updates,
                           "position"),
                   Call("updateCardPosition", <<>>, t.cardId))
    [] OTHER -> h

\* what the awaiting function does when its withRetry rejects
afterRejected(h, t) ==
  IF t.kind = "save" THEN saveRejected(h, t) ELSE callRejected(h, t)

\* a saveCards, createCard, updateCard... operation resolves
OpSucceeds(s) ==
  LET t == tasks[s]
  IN  /\ t.pc = "op"
      /\ t.kind \in {"save", "create", "update", "delete"}
      /\ CanSucceed(t)
      /\ \E suffix \in Suffixes :
           remote' = remoteAfterSuccess(remote, t, now, suffix)
      /\ Commit(afterResolved([Hook EXCEPT !.tasks[s] = Idle], t, now))
      /\ lastOp' = Op("resolved", t.kind, t.calls, NoArg)
      /\ deleted' = deleteSaved(deleted, t)
      /\ UNCHANGED <<callVars, compVars, mounted, now, navOnline, isOnline,
                     dashVars, events, faults>>

\* the operation throws; of the writes of a saveCards any but all may
\* have been applied
OpFails(s) ==
  LET t == tasks[s]
  IN  /\ t.pc = "op"
      /\ t.kind \in {"save", "create", "update", "delete"}
      /\ t.kind = "save" => t.cards # <<>>
      /\ Fault(CanSucceed(t))
      /\ \E done \in (IF t.kind = "save" /\ navOnline
                         THEN SUBSET (DOMAIN t.cards) \ {DOMAIN t.cards}
                         ELSE {{}}) :
           remote' = saveCardsWrites(remote, t.cards, Len(t.cards), done)
      /\ IF withRetryCatches(t)
           THEN /\ Commit([Hook EXCEPT !.tasks = setRetryTimeout(@, s)])
                /\ lastOp' = Op("delayed", t.kind, t.calls, NoArg)
           ELSE /\ Commit(afterRejected([Hook EXCEPT !.tasks[s] = Idle], t))
                /\ lastOp' = Op("rejected", t.kind, t.calls, NoArg)
      /\ UNCHANGED <<genVars, mounted, now, navOnline, isOnline, dashVars, events>>

\* the end of a loadCardsFromFirebase that awaited cardService.loadCards,
\* whose getDocs succeeded (fetched) or failed
LoadSettles(s, fetched) ==
  LET t == tasks[s]
      res == loadCards(remote, fetched)
      h0 == [Hook EXCEPT !.tasks[s] = Idle]
  IN  /\ t.pc = "op"
      /\ t.kind = "load"
      /\ fetched => navOnline
      /\ IF fetched THEN faults' = faults ELSE Fault(navOnline)
      /\ IF res.ok
           THEN \E rs \in LoadDraws :
                  LET h1 == loadResolved(h0, res.value, now, rs)
                  IN  /\ Commit(h1)
                      /\ dCards' = IF t.caller = "dash"
                                     THEN loadSavedCardsResult(dCards, h1.ret)
                                     ELSE dCards
                      /\ lastOp' = Op("loadReturned",
                                      IF fetched THEN "fetched"
                                                 ELSE "fetchFailed",
                                      t.calls,
                                      [NoArg EXCEPT !.cards = h1.ret,
                                                    !.loaded = res.value])
           ELSE IF withRetryCatches(t)
             THEN /\ Commit([Hook EXCEPT !.tasks = setRetryTimeout(@, s)])
                  /\ dCards' = dCards
                  /\ lastOp' = Op("delayed", t.kind, t.calls, NoArg)
             ELSE \E rs \in LoadDraws :
                    LET h1 == loadRejected(h0, rs)
                    IN  /\ Commit(h1)
                        /\ dCards' = IF t.caller = "dash"
                                       THEN loadSavedCardsResult(dCards, h1.ret)
                                       ELSE dCards
                        /\ lastOp' = Op("loadReturned", "fetchFailed",
                                        t.calls,
                                        [NoArg EXCEPT !.cards = h1.ret])
      /\ UNCHANGED <<genVars, mounted, now, navOnline, remote, isOnline, currentPeriod,
                     isInterchangeMode, pendingCreate, events>>

LoadFetched(s) == LoadSettles(s, TRUE)
LoadFetchFails(s) == LoadSettles(s, FALSE)

\* the delay timer of withRetry fires
RetryTimerFires(s) ==
  LET t == tasks[s]
  IN  /\ t.pc = "delay"
      /\ tasks' = [tasks EXCEPT ![s] = withRetryAgain(t)]
      /\ remoteCalls' = <<CallOf(t)>>
      /\ lastOp' = Op("retry", t.kind, t.calls + 1, NoArg)
      /\ UNCHANGED <<genVars, mounted, envVars, hCards, loading, error, isOnline,
                     lastSyncTime, dashVars, events, faults>>

\* ---- a client component calls the hook --------------------------------
TitleA == <<"a">>
TitlePadded == <<" ", "a", " ">>
TitleBlank == <<" ">>
TitleTooLong == Repeat("a", MaxTitleLength + 1)

SampleValid ==
  Card(<<"card_", 0, 0>>, TitlePadded, "energy", 0, FallbackData)
SampleValid2 == Card(<<"card_", 0, 1>>, TitleA, "coils", 1, FallbackData)
SampleBlank == Card(<<"card_", 1, 0>>, TitleBlank, "tons", 1, FallbackData)
SampleTooLong ==
  Card(<<"card_", 1, 1>>, TitleTooLong, "custom", 2, FallbackData)
SampleBadType == Card(<<"card_", 1, 0>>, TitleA, "bogus", 0, FallbackData)

\* the lists saveCardsToFirebase is called with, by name
SaveInput(name) ==
  CASE name = "cards" -> hCards
    [] name = "valid" -> <<SampleValid, SampleValid2>>
    [] OTHER -> <<SampleBlank, SampleValid, SampleTooLong, SampleBadType>>

SaveInputs == {"cards", "valid", "mixed"}

\* the card data createCard is called with
CreateInputs ==
  {[title |-> TitleA, type |-> "coils", position |-> 0],
   [title |-> TitleBlank, type |-> "energy", position |-> 1],
   [title |-> TitlePadded, type |-> "bogus", position |-> 0]}

\* the updates updateCard is called with
UpdateInputs ==
  {Updates(TRUE, TitlePadded, FALSE, 0), Updates(FALSE, <<>>, TRUE, 1),
   Updates(TRUE, TitleBlank, TRUE, 0)}

ClientSave(input) ==
  /\ Event
  /\ isOnline => HasFreeSlot(tasks)
  /\ Commit(saveCardsToFirebase(Hook, SaveInput(input), isOnline, "client",
                                now))
  /\ lastOp' = Op("saveCardsToFirebase",
                  IF isOnline THEN "online" ELSE "offline", 0,
                  [NoArg EXCEPT !.str = input])
  /\ UNCHANGED <<genVars, mounted, now, navOnline, remote, isOnline, dashVars>>

ClientLoad ==
  /\ Event
  /\ isOnline => HasFreeSlot(tasks)
  /\ \E rs \in LoadDraws :
       LET h == loadCardsFromFirebase(Hook, isOnline, "client", rs)
       IN  /\ Commit(h)
           /\ lastOp' = IF isOnline
                          THEN Op("loadCardsFromFirebase", "online", 0, NoArg)
                          ELSE Op("loadReturned", "offline", 0,
                                  [NoArg EXCEPT !.cards = h.ret])
  /\ UNCHANGED <<genVars, mounted, now, navOnline, remote, isOnline, dashVars>>

ClientCreate(cardData) ==
  /\ Event
  /\ isOnline => HasFreeSlot(tasks)
  /\ \E suffix \in Suffixes, rs \in LoadDraws :
       LET h == createCard(Hook, cardData, isOnline, now, suffix, rs)
       IN  /\ Commit(h)
           /\ lastOp' = Op("createCard",
                           IF h.ret = "rejected" THEN "rejected" ELSE "added",
                           0, [NoArg EXCEPT !.id = <<"card_", now, suffix>>])
  /\ UNCHANGED <<genVars, mounted, now, navOnline, remote, isOnline, dashVars>>

ClientUpdate(cardId, updates) ==
  /\ Event
  /\ isOnline => HasFreeSlot(tasks)
  /\ Commit(updateCard(Hook, cardId, updates, isOnline))
  /\ lastOp' = Op("updateCard", "none", 0,
                  [NoArg EXCEPT !.id = cardId, !.updates = updates])
  /\ UNCHANGED <<genVars, mounted, now, navOnline, remote, isOnline, dashVars>>

ClientDelete(cardId) ==
  /\ Event
  /\ isOnline => HasFreeSlot(tasks)
  /\ Commit(deleteCard(Hook, cardId, isOnline))
  /\ lastOp' = Op("deleteCard", "none", 0, [NoArg EXCEPT !.id = cardId])
  /\ UNCHANGED <<genVars, mounted, now, navOnline, remote, isOnline, dashVars>>

\* the page is reloaded: the component that uses the hook mounts again over
\* the stored data; what was awaiting is gone
ReloadFacade ==
  /\ Event
  /\ \E rs \in LoadDraws :
       Commit(mountHook(FreshHook(lsCards, lsQueue), navOnline, rs))
  /\ isOnline' = navOnline
  /\ lastOp' = Op("mount", "none", 0, NoArg)
  /\ UNCHANGED <<genVars, mounted, now, navOnline, remote, dashVars>>

NextFacade ==
  \/ Tick
  \/ GoOnline
  \/ GoOffline
  \/ HookRefresh
  \/ \E s \in Slots : OpSucceeds(s)
  \/ \E s \in Slots : OpFails(s)
  \/ \E s \in Slots : LoadFetched(s)
  \/ \E s \in Slots : LoadFetchFails(s)
  \/ \E s \in Slots : RetryTimerFires(s)
  \/ \E input \in SaveInputs : ClientSave(input)
  \/ ClientLoad
  \/ \E cardData \in CreateInputs : ClientCreate(cardData)
  \/ \E cardId \in Ids(hCards), updates \in UpdateInputs :
       ClientUpdate(cardId, updates)
  \/ \E cardId \in Ids(hCards) : ClientDelete(cardId)
  \/ ReloadFacade

FacadeSpec == InitFacade /\ [][NextFacade]_vars

\* ---- the Dashboard's handlers -----------------------------------------
\* setCards(updatedCards); saveCardsToFirebase(updatedCards) of a handler
\* whose closure saw the given isOnline, and the render that follows
DashSave(updatedCards, online) ==
  /\ online => HasFreeSlot(tasks)
  /\ Commit(saveCardsToFirebase(Hook, updatedCards, online, "dash", now))
  /\ dCards' = Render(updatedCards)

\* the Dashboard's interval: updateAllCardData
DashRefresh ==
  /\ Event
  /\ \E rs \in StateDraws :
       dCards' = Render(updateAllCardData(dCards, currentPeriod, rs))
  /\ lastOp' = Op("updateAllCardData", "none", 0, NoArg)
  /\ remoteCalls' = <<>>
  /\ UNCHANGED <<genVars, mounted, envVars, hookVars, currentPeriod,
                 isInterchangeMode, pendingCreate>>

\* handlePeriodChange: updateAllCardData runs with the period of the render
\* the handler was made in
HandlePeriodChange(period) ==
  /\ Event
  /\ ~pendingCreate.pending
  /\ currentPeriod' = period
  /\ \E rs \in LoadDraws :
       dCards' = Render(updateAllCardData(dCards, currentPeriod, rs))
  /\ lastOp' = Op("handlePeriodChange", "none", 0,
                  [NoArg EXCEPT !.str = period])
  /\ remoteCalls' = <<>>
  /\ UNCHANGED <<genVars, mounted, envVars, hookVars, isInterchangeMode,
                 pendingCreate>>

ToggleInterchangeMode ==
  /\ Event
  /\ ~pendingCreate.pending
  /\ isInterchangeMode' = ~isInterchangeMode
  /\ lastOp' = Op("toggleInterchangeMode", "none", 0, NoArg)
  /\ remoteCalls' = <<>>
  /\ UNCHANGED <<genVars, mounted, envVars, hookVars, dCards, currentPeriod,
                 pendingCreate>>

\* what the modal can submit: a fixed type with the title of its card, or
\* the custom type with the typed title, trimmed
ModalInputs ==
  {[title |-> TitleCoils, type |-> "coils"],
   [title |-> TitleA, type |-> "custom"]}

\* the modal's handleCreate: the Create button starts a one second timer
\* that will call the onCreate of this render
ModalCreate(cardData) ==
  /\ Event
  /\ ~pendingCreate.pending
  /\ pendingCreate' = [pending |-> TRUE, cards |-> dCards,
                       online |-> isOnline, period |-> currentPeriod,
                       cardData |-> cardData]
  /\ lastOp' = Op("handleCreate", "none", 0,
                  [NoArg EXCEPT !.str = cardData.type])
  /\ remoteCalls' = <<>>
  /\ UNCHANGED <<genVars, mounted, envVars, hookVars, dCards, currentPeriod,
                 isInterchangeMode>>

\* the timer fires a second later: handleCreateCard
CreateTimerFires ==
  /\ pendingCreate.pending
  /\ now' = now + 1
  /\ pendingCreate' = NoPending
  /\ \E rs \in LoadDraws :
       DashSave(handleCreateCard(pendingCreate.cards, pendingCreate.cardData,
                                 pendingCreate.period, now', rs),
                pendingCreate.online)
  /\ lastOp' = Op("handleCreateCard", "none", 0,
                  [NoArg EXCEPT !.id = <<"card-", now', 0>>])
  /\ UNCHANGED <<genVars, mounted, navOnline, remote, isOnline, currentPeriod,
                 isInterchangeMode, events, faults>>

\* the delete button of the i-th card shown
HandleDeleteCard(i) ==
  /\ Event
  /\ ~pendingCreate.pending
  /\ i \in DOMAIN dCards
  /\ DashSave(handleDeleteCard(dCards, dCards[i].id), isOnline)
  /\ lastOp' = Op("handleDeleteCard", "none", 0, [NoArg EXCEPT !.num = i])
  /\ deleted' = deleteStarted(deleted, dCards[i].id,
                              handleDeleteCard(dCards, dCards[i].id),
                              isOnline)
  /\ UNCHANGED <<callVars, compVars, mounted, now, navOnline, remote,
                 isOnline, currentPeriod, isInterchangeMode, pendingCreate>>

\* the up button of the i-th card shown (disabled on the first; shown in
\* interchange mode, outside of it moveCardUp returns at once)
MoveCardUp(i) ==
  /\ Event
  /\ ~pendingCreate.pending
  /\ isInterchangeMode
  /\ i \in DOMAIN dCards
  /\ i > 1
  /\ findIndex(dCards, dCards[i].id) > 1
  /\ DashSave(moveCardUp(dCards, dCards[i].id), isOnline)
  /\ lastOp' = Op("moveCardUp", "none", 0, [NoArg EXCEPT !.num = i])
  /\ UNCHANGED <<genVars, mounted, now, navOnline, remote, isOnline, currentPeriod,
                 isInterchangeMode, pendingCreate>>

\* the down button of the i-th card shown (disabled on the last)
MoveCardDown(i) ==
  /\ Event
  /\ ~pendingCreate.pending
  /\ isInterchangeMode
  /\ i \in DOMAIN dCards
  /\ i < Len(dCards)
  /\ findIndex(dCards, dCards[i].id) < Len(dCards)
  /\ DashSave(moveCardDown(dCards, dCards[i].id), isOnline)
  /\ lastOp' = Op("moveCardDown", "none", 0, [NoArg EXCEPT !.num = i])
  /\ UNCHANGED <<genVars, mounted, now, navOnline, remote, isOnline, currentPeriod,
                 isInterchangeMode, pendingCreate>>

\* the page is reloaded: hook and Dashboard mount again over what is stored
ReloadDashboard ==
  /\ Event
  /\ isOnline' = navOnline
  /\ currentPeriod' = "daily"
  /\ isInterchangeMode' = FALSE
  /\ pendingCreate' = NoPending
  /\ \E rs \in LoadDraws :
       LET h1 == mountHook(FreshHook(lsCards, lsQueue), navOnline, rs)
           h2 == mountDashboardHook(h1, navOnline, rs)
       IN  /\ Commit(h2)
           /\ dCards' = mountDashboardCards(h2, navOnline, rs)
  /\ lastOp' = Op("mount", "none", 0, NoArg)
  /\ deleted' = deleteReloaded(deleted)
  /\ UNCHANGED <<callVars, compVars, mounted, now, navOnline, remote>>

Next ==
  \/ GoOnline
  \/ GoOffline
  \/ HookRefresh
  \/ \E s \in Slots : OpSucceeds(s)
  \/ \E s \in Slots : OpFails(s)
  \/ \E s \in Slots : LoadFetched(s)
  \/ \E s \in Slots : LoadFetchFails(s)
  \/ \E s \in Slots : RetryTimerFires(s)
  \/ DashRefresh
  \/ \E period \in TimePeriod : HandlePeriodChange(period)
  \/ ToggleInterchangeMode
  \/ \E cardData \in ModalInputs : ModalCreate(cardData)
  \/ CreateTimerFires
  \/ \E i \in 1 .. (MaxReorderEvents + 3) : HandleDeleteCard(i)
  \/ \E i \in 1 .. (MaxReorderEvents + 3) : MoveCardUp(i)
  \/ \E i \in 1 .. (MaxReorderEvents + 3) : MoveCardDown(i)
  \/ ReloadDashboard

Spec == Init /\ [][Next]_vars

\* the Dashboard's cards deleted and reordered on a network that does not
\* fail, no interval tick falling between the user's actions
InitReorder ==
  /\ GenIdle
  /\ events = MaxReorderEvents
  /\ faults = 0
  /\ InitEnv
  /\ navOnline
  /\ currentPeriod = "daily"
  /\ isInterchangeMode = FALSE
  /\ pendingCreate = NoPending
  /\ \E rs \in LoadDraws :
       LET h1 == mountHook(FreshHook(<<>>, <<>>), navOnline, rs)
           h2 == mountDashboardHook(h1, navOnline, rs)
       IN  /\ InitHookFrom(h2)
           /\ dCards = mountDashboardCards(h2, navOnline, rs)

NextReorder ==
  \/ \E s \in Slots : OpSucceeds(s)
  \/ \E s \in Slots : LoadFetched(s)
  \/ ToggleInterchangeMode
  \/ \E i \in 1 .. (MaxReorderEvents + 3) : HandleDeleteCard(i)
  \/ \E i \in 1 .. (MaxReorderEvents + 3) : MoveCardUp(i)
  \/ \E i \in 1 .. (MaxReorderEvents + 3) : MoveCardDown(i)
  \/ ReloadDashboard

ReorderSpec == InitReorder /\ [][NextReorder]_vars

\* ---- the generator called on its own ----------------------------------
\* each variable of the generator shows the last call when that call was of
\* its function, and nothing otherwise
\* actual and benchmark values (in hundredths) calculateAchievementPercentage
\* is called with: zero, values whose ratio falls between two tenths, and
\* values of the ranges the generators draw from
CalcSamples == {0, 40, 55 + 2, 1100, 1600, 15040}

InitGen ==
  /\ GenIdle
  /\ events = 0
  /\ faults = 0
  /\ InitEnv
  /\ navOnline
  /\ DashIdle
  /\ InitHookFrom(FreshHook(<<>>, <<>>))

\* kpiDataGenerator.calculateAchievementPercentage(actual, benchmark, type)
Calculate(type, actual, benchmark) ==
  /\ calc' = [done |-> TRUE, type |-> type, actual |-> actual,
              benchmark |-> benchmark,
              result |-> calculateAchievementPercentage(actual, benchmark,
                                                        type)]
  /\ generated' = NoGenerated
  /\ facadePoint' = NoFacadePoint
  /\ converted' = NoConverted
  /\ formatted' = NoFormatted
  /\ UNCHANGED <<compVars, histVars, envVars, hookVars, mounted, dashVars,
                 obsVars>>

\* kpiDataGenerator.generateKPIData(type, period)
Generate(type, period, rs) ==
  /\ generated' = [done |-> TRUE, type |-> type]
                    @@ generateKPIData(type, period, rs)
  /\ calc' = NoCalc
  /\ facadePoint' = NoFacadePoint
  /\ converted' = NoConverted
  /\ formatted' = NoFormatted
  /\ UNCHANGED <<compVars, histVars, envVars, hookVars, mounted, dashVars,
                 obsVars>>

\* the strings useKPIData.generateKPIData is called with: the card types
\* and periods, and one string that is neither (a type read from a stored
\* document, a period from outside the select)
FacadeTypes == CardType \cup {"gauge"}
FacadePeriods == TimePeriod \cup {"yearly"}

\* useKPIData.generateKPIData(type, period)
FacadeGenerate(type, period, rs) ==
  /\ facadePoint' = [done |-> TRUE, type |-> type, period |-> period,
                     raw |-> generateKPIData(type, period, rs),
                     result |-> facadeGenerateKPIData(type, period, rs)]
  /\ calc' = NoCalc
  /\ generated' = NoGenerated
  /\ converted' = NoConverted
  /\ formatted' = NoFormatted
  /\ UNCHANGED <<compVars, histVars, envVars, hookVars, mounted, dashVars,
                 obsVars>>

\* hourly values (in hundredths) convertToPeriod is called with: zero, the
\* smallest step, and values of the ranges the generators draw from
HourlySamples == {0, 1, 55 + 2, 1000, 1250, 9950, 45000}

\* timePeriodUtils.convertToPeriod(hourlyValue, period)
ConvertToPeriod(hourlyValue, period) ==
  /\ converted' = [done |-> TRUE, hourlyValue |-> hourlyValue,
                   period |-> period,
                   result |-> convertToPeriod(hourlyValue, period)]
  /\ calc' = NoCalc
  /\ generated' = NoGenerated
  /\ facadePoint' = NoFacadePoint
  /\ formatted' = NoFormatted
  /\ UNCHANGED <<compVars, histVars, envVars, hookVars, mounted, dashVars,
                 obsVars>>

\* percentages (in hundredths) formatPercentage is called with: the band
\* edges and the values one tenth below them, values inside the bands, a
\* value that rounds up to an edge, Infinity and NaN
PercentageSamples ==
  {0, 5990, 6000, 7950, 7990, 8000, 9990, 100 * Unit, 175 * Unit,
   PosInfinity, NaNValue}

\* formatUtils.formatPercentage(percentage)
FormatPercentage(percentage) ==
  /\ formatted' = [done |-> TRUE, percentage |-> percentage]
                     @@ formatPercentage(percentage)
  /\ calc' = NoCalc
  /\ generated' = NoGenerated
  /\ facadePoint' = NoFacadePoint
  /\ converted' = NoConverted
  /\ UNCHANGED <<compVars, histVars, envVars, hookVars, mounted, dashVars,
                 obsVars>>

NextGen ==
  \/ \E type \in CardType, actual \in CalcSamples, benchmark \in CalcSamples :
       Calculate(type, actual, benchmark)
  \/ \E type \in CardType, period \in TimePeriod,
        rs \in RandomDraws \X RandomDraws \X RandomDraws :
       Generate(type, period, rs)
  \/ \E type \in FacadeTypes, period \in FacadePeriods,
        rs \in RandomDraws \X RandomDraws \X RandomDraws :
       FacadeGenerate(type, period, rs)
  \/ \E hourlyValue \in HourlySamples, period \in FacadePeriods :
       ConvertToPeriod(hourlyValue, period)
  \/ \E percentage \in PercentageSamples : FormatPercentage(percentage)

GenSpec == InitGen /\ [][NextGen]_vars

\* ---- one KPICard on its own --------------------------------------------
\* how many refreshes of one card are followed
MaxCardRefreshes == 3

\* the card.data a card is given (in hundredths): zero, the smallest values,
\* and values of the ranges the generators draw from
CardDataSamples ==
  {[actual |-> 0, benchmark |-> 1000, percentage |-> 0],
   [actual |-> 2, benchmark |-> 1000, percentage |-> 20],
   [actual |-> 1250, benchmark |-> 1000, percentage |-> 12500],
   [actual |-> 8550, benchmark |-> 9000, percentage |-> 9500]}

InitCard == InitGen

\* the Dashboard renders a card for the first time
MountKPICard(type, period, data) ==
  /\ ~kpiCard.mounted
  /\ kpiCard' = mountKPICard(type, period, data)
  /\ UNCHANGED <<callVars, modal, timers, histVars, envVars, hookVars,
                 mounted, dashVars, obsVars>>

\* the Dashboard's tick or period change gives the card a new card.data
RefreshKPICard(period, data) ==
  /\ kpiCard.mounted
  /\ kpiCard.refreshes < MaxCardRefreshes
  /\ kpiCard' = refreshKPICard(kpiCard, period, data)
  /\ UNCHANGED <<callVars, modal, timers, histVars, envVars, hookVars,
                 mounted, dashVars, obsVars>>

\* the card is deleted
UnmountKPICard ==
  /\ kpiCard.mounted
  /\ kpiCard' = NoKPICard
  /\ UNCHANGED <<callVars, modal, timers, histVars, envVars, hookVars,
                 mounted, dashVars, obsVars>>

NextCard ==
  \/ \E type \in CardType, period \in TimePeriod, data \in CardDataSamples :
       MountKPICard(type, period, data)
  \/ \E period \in TimePeriod, data \in CardDataSamples :
       RefreshKPICard(period, data)
  \/ UnmountKPICard

CardSpec == InitCard /\ [][NextCard]_vars

\* ---- the CreateCardModal on its own -------------------------------------
\* how many handleCreate delays are followed at one time
MaxModalDelays == 1

\* the titles of cardOptions
TitleYield ==
  <<"P", "r", "o", "d", "u", "c", "t", "i", "o", "n", " ", "Y", "i", "e",
    "l", "d">>
TitleEfficiency ==
  <<"M", "a", "c", "h", "i", "n", "e", " ", "E", "f", "f", "i", "c", "i",
    "e", "n", "c", "y">>
TitleQuality ==
  <<"Q", "u", "a", "l", "i", "t", "y", " ", "S", "c", "o", "r", "e">>
TitleEnergy ==
  <<"E", "n", "e", "r", "g", "y", " ", "C", "o", "n", "s", "u", "m", "p",
    "t", "i", "o", "n">>
TitleCustom ==
  <<"C", "u", "s", "t", "o", "m", " ", "M", "e", "t", "r", "i", "c">>

\* getSelectedOption().title
optionTitle(type) ==
  CASE type = "coils" -> TitleCoils
    [] type = "tons" -> TitleTons
    [] type = "shipped" -> TitleShipped
    [] type = "yield" -> TitleYield
    [] type = "efficiency" -> TitleEfficiency
    [] type = "quality" -> TitleQuality
    [] type = "energy" -> TitleEnergy
    [] OTHER -> TitleCustom

\* a faulty variant: Next is never disabled
canProceed_Always(m) == TRUE

\* canProceed: Next is disabled when it is false
canProceed(m) ==
  IF m.step = "select"
    THEN TRUE
    ELSE IF m.step = "customize"
      THEN m.selectedType # "custom" \/ Len(trim(m.customTitle)) > 0
      ELSE TRUE

handleNext(m) ==
  IF m.step = "select"
    THEN [m EXCEPT !.step = "customize"]
    ELSE IF m.step = "customize" THEN [m EXCEPT !.step = "confirm"] ELSE m

handleBack(m) ==
  IF m.step = "confirm"
    THEN [m EXCEPT !.step = "customize"]
    ELSE IF m.step = "customize" THEN [m EXCEPT !.step = "select"] ELSE m

\* handleCreate up to its await: the card the delay will hand to onCreate
handleCreate(m) ==
  LET title == IF m.selectedType = "custom" /\ trim(m.customTitle) # <<>>
                 THEN trim(m.customTitle)
                 ELSE optionTitle(m.selectedType)
  IN  [m EXCEPT !.isCreating = TRUE,
                !.delays = @ \cup {[title |-> title,
                                    type |-> m.selectedType]}]

\* the modal is rendered anew: the useState initial values
openModal(m) == [NoModal EXCEPT !.open = TRUE, !.delays = m.delays,
                                !.handed = m.handed]

\* the Dashboard stops rendering the modal; a running delay goes on
closeModal(m) == [NoModal EXCEPT !.delays = m.delays, !.handed = m.handed]

\* what the title input can hold (maxLength = 50): nothing, blanks, a
\* padded title, a title of 50 characters, one of 49 after a blank
TitleFull == Repeat("a", MaxTitleLength)
TitleInputs ==
  {<<>>, TitleBlank, TitlePadded, TitleA, TitleFull,
   <<" ">> \o Repeat("a", MaxTitleLength - 1)}

InitModal == InitGen

\* the Add Card button of the Dashboard
OpenModal ==
  /\ ~modal.open
  /\ modal' = openModal(modal)
  /\ UNCHANGED <<callVars, kpiCard, timers, histVars, envVars, hookVars,
                 mounted, dashVars, obsVars>>

\* the close button, Escape or the backdrop (Cancel is disabled while
\* isCreating)
CloseModal ==
  /\ modal.open
  /\ modal' = closeModal(modal)
  /\ UNCHANGED <<callVars, kpiCard, timers, histVars, envVars, hookVars,
                 mounted, dashVars, obsVars>>

\* a card option of the select step is clicked
SetSelectedType(type) ==
  /\ modal.open
  /\ modal.step = "select"
  /\ modal' = [modal EXCEPT !.selectedType = type]
  /\ UNCHANGED <<callVars, kpiCard, timers, histVars, envVars, hookVars,
                 mounted, dashVars, obsVars>>

\* the title input of the customize step, shown for the custom type
SetCustomTitle(title) ==
  /\ modal.open
  /\ modal.step = "customize"
  /\ modal.selectedType = "custom"
  /\ modal' = [modal EXCEPT !.customTitle = title]
  /\ UNCHANGED <<callVars, kpiCard, timers, histVars, envVars, hookVars,
                 mounted, dashVars, obsVars>>

\* the Next button (shown before the confirm step)
HandleNext ==
  /\ modal.open
  /\ modal.step # "confirm"
  /\ canProceed(modal)
  /\ modal' = handleNext(modal)
  /\ UNCHANGED <<callVars, kpiCard, timers, histVars, envVars, hookVars,
                 mounted, dashVars, obsVars>>

\* the Back button (shown after the select step, disabled while isCreating)
HandleBack ==
  /\ modal.open
  /\ modal.step # "select"
  /\ ~modal.isCreating
  /\ modal' = handleBack(modal)
  /\ UNCHANGED <<callVars, kpiCard, timers, histVars, envVars, hookVars,
                 mounted, dashVars, obsVars>>

\* the Create Card button (shown in the confirm step)
HandleCreate ==
  /\ modal.open
  /\ modal.step = "confirm"
  /\ ~modal.isCreating
  /\ Cardinality(modal.delays) < MaxModalDelays
  /\ modal' = handleCreate(modal)
  /\ UNCHANGED <<callVars, kpiCard, timers, histVars, envVars, hookVars,
                 mounted, dashVars, obsVars>>

\* the delay of a handleCreate is over: onCreate({title, type}), and the
\* Dashboard's handleCreateCard closes the modal
DelayEnds(d) ==
  /\ d \in modal.delays
  /\ modal' = [closeModal(modal) EXCEPT
                 !.delays = modal.delays \ {d},
                 !.handed = [done |-> TRUE, title |-> d.title,
                             type |-> d.type]]
  /\ UNCHANGED <<callVars, kpiCard, timers, histVars, envVars, hookVars,
                 mounted, dashVars, obsVars>>

NextModal ==
  \/ OpenModal
  \/ CloseModal
  \/ \E type \in CardType : SetSelectedType(type)
  \/ \E title \in TitleInputs : SetCustomTitle(title)
  \/ HandleNext
  \/ HandleBack
  \/ HandleCreate
  \/ \E d \in modal.delays : DelayEnds(d)

ModalSpec == InitModal /\ [][NextModal]_vars

\* ---- the intervals of the components ------------------------------------
\* how many intervals are set in one run
MaxIntervals == 5

\* setInterval(callback, delay) by an effect of owner: the interval is
\* scheduled under the next id
setInterval(t, owner) ==
  [t EXCEPT !.scheduled = @ \cup {<<t.nextId, owner>>}, !.nextId = @ + 1]

\* clearInterval(id)
clearInterval(t, id) ==
  [t EXCEPT !.scheduled = {p \in @ : p[1] # id}]

\* the Dashboard's refresh effect on [cards, currentPeriod, isClient]
dashRefreshEffect(t) ==
  IF ~t.isClient
    THEN t
    ELSE [setInterval(t, "dashboard") EXCEPT !.interval = t.nextId]

\* a faulty variant: the effect returns no cleanup
dashRefreshCleanup_None(t) == t

\* its cleanup, returned only by a run that set an interval
dashRefreshCleanup(t) ==
  IF t.interval # 0
    THEN [clearInterval(t, t.interval) EXCEPT !.interval = 0]
    ELSE t

\* useKPIData's refresh effect on [refreshData, refreshInterval]
hookRefreshEffect(t) ==
  [setInterval(t, "hook") EXCEPT !.refreshIntervalRef = t.nextId]

\* its cleanup, and the same lines of the cleanup on unmount
hookRefreshCleanup(t) ==
  IF t.refreshIntervalRef # 0
    THEN clearInterval(t, t.refreshIntervalRef)
    ELSE t

\* the Sidebar's clock effect
clockEffect(t) ==
  [setInterval(t, "sidebar") EXCEPT !.timeInterval = t.nextId]

\* its cleanup
clockCleanup(t) ==
  [clearInterval(t, t.timeInterval) EXCEPT !.timeInterval = 0]

InitTimers == InitGen

\* the Dashboard is rendered for the first time: isClient is false and the
\* refresh effect returns at once
MountDashboard ==
  /\ ~timers.dashMounted
  /\ timers' = dashRefreshEffect([timers EXCEPT !.dashMounted = TRUE,
                                                !.isClient = FALSE,
                                                !.ran = "none"])
  /\ UNCHANGED <<callVars, kpiCard, modal, histVars, envVars, hookVars,
                 mounted, dashVars, obsVars>>

\* the render after setIsClient(true): the refresh effect runs again
DashboardIsClient ==
  /\ timers.dashMounted
  /\ ~timers.isClient
  /\ timers.nextId <= MaxIntervals
  /\ timers' = dashRefreshEffect(dashRefreshCleanup(
                 [timers EXCEPT !.isClient = TRUE, !.ran = "none"]))
  /\ UNCHANGED <<callVars, kpiCard, modal, histVars, envVars, hookVars,
                 mounted, dashVars, obsVars>>

\* a render of the client Dashboard with new cards or a new currentPeriod
\* (a handler, the end of a load): cleanup, then the effect
DashboardDepsChange ==
  /\ timers.dashMounted
  /\ timers.isClient
  /\ timers.nextId <= MaxIntervals
  /\ timers' = dashRefreshEffect(dashRefreshCleanup(
                 [timers EXCEPT !.ran = "none"]))
  /\ UNCHANGED <<callVars, kpiCard, modal, histVars, envVars, hookVars,
                 mounted, dashVars, obsVars>>

\* the Dashboard is unmounted
UnmountDashboard ==
  /\ timers.dashMounted
  /\ timers' = [dashRefreshCleanup(timers) EXCEPT !.dashMounted = FALSE,
                                                  !.isClient = FALSE,
                                                  !.ran = "none"]
  /\ UNCHANGED <<callVars, kpiCard, modal, histVars, envVars, hookVars,
                 mounted, dashVars, obsVars>>

\* a component that uses useKPIData is rendered for the first time
MountHookTimers ==
  /\ ~timers.hookMounted
  /\ timers.nextId <= MaxIntervals
  /\ timers' = hookRefreshEffect([timers EXCEPT !.hookMounted = TRUE,
                                                !.refreshIntervalRef = 0,
                                                !.ran = "none"])
  /\ UNCHANGED <<callVars, kpiCard, modal, histVars, envVars, hookVars,
                 mounted, dashVars, obsVars>>

\* a render with a new refreshData or refreshInterval
HookDepsChange ==
  /\ timers.hookMounted
  /\ timers.nextId <= MaxIntervals
  /\ timers' = hookRefreshEffect(hookRefreshCleanup(
                 [timers EXCEPT !.ran = "none"]))
  /\ UNCHANGED <<callVars, kpiCard, modal, histVars, envVars, hookVars,
                 mounted, dashVars, obsVars>>

\* the component is unmounted: the cleanup of the refresh effect, then the
\* cleanup on unmount
UnmountHookTimers ==
  /\ timers.hookMounted
  /\ timers' = [hookRefreshCleanup(hookRefreshCleanup(timers))
                  EXCEPT !.hookMounted = FALSE, !.ran = "none"]
  /\ UNCHANGED <<callVars, kpiCard, modal, histVars, envVars, hookVars,
                 mounted, dashVars, obsVars>>

MountSidebar ==
  /\ ~timers.sidebarMounted
  /\ timers.nextId <= MaxIntervals
  /\ timers' = clockEffect([timers EXCEPT !.sidebarMounted = TRUE,
                                          !.ran = "none"])
  /\ UNCHANGED <<callVars, kpiCard, modal, histVars, envVars, hookVars,
                 mounted, dashVars, obsVars>>

UnmountSidebar ==
  /\ timers.sidebarMounted
  /\ timers' = [clockCleanup(timers) EXCEPT !.sidebarMounted = FALSE,
                                            !.ran = "none"]
  /\ UNCHANGED <<callVars, kpiCard, modal, histVars, envVars, hookVars,
                 mounted, dashVars, obsVars>>

\* a scheduled interval runs its callback; updateAllCardData of a mounted
\* Dashboard sets new cards, so the render that follows runs the cleanup
\* and the refresh effect
IntervalRuns(p) ==
  /\ p \in timers.scheduled
  /\ (p[2] = "dashboard" /\ timers.dashMounted) =>
       timers.nextId <= MaxIntervals
  /\ timers' = IF p[2] = "dashboard" /\ timers.dashMounted
                 THEN dashRefreshEffect(dashRefreshCleanup(
                        [timers EXCEPT !.ran = p[2]]))
                 ELSE [timers EXCEPT !.ran = p[2]]
  /\ UNCHANGED <<callVars, kpiCard, modal, histVars, envVars, hookVars,
                 mounted, dashVars, obsVars>>

NextTimers ==
  \/ MountDashboard
  \/ DashboardIsClient
  \/ DashboardDepsChange
  \/ UnmountDashboard
  \/ MountHookTimers
  \/ HookDepsChange
  \/ UnmountHookTimers
  \/ MountSidebar
  \/ UnmountSidebar
  \/ \E p \in timers.scheduled : IntervalRuns(p)

TimersSpec == InitTimers /\ [][NextTimers]_vars

\* ---- the hook's calls settle if the browser lets them ------------------
\* a request in flight resolves or rejects, a delay timer fires
Settle ==
  \E s \in Slots :
    \/ OpSucceeds(s)
    \/ OpFails(s)
    \/ LoadFetched(s)
    \/ LoadFetchFails(s)
    \/ RetryTimerFires(s)

\* the hook mounted, then asked for one thing while its first load is on
\* its way
InitRetry ==
  /\ GenIdle
  /\ events = MaxRetryEvents
  /\ faults = MaxFaults
  /\ InitEnv
  /\ DashIdle
  /\ \E rs \in LoadDraws :
       InitHookFrom(mountHook(FreshHook(<<>>, <<>>), navOnline, rs))

NextRetry ==
  \/ GoOffline
  \/ \E s \in Slots : OpSucceeds(s)
  \/ \E s \in Slots : OpFails(s)
  \/ \E s \in Slots : LoadFetched(s)
  \/ \E s \in Slots : LoadFetchFails(s)
  \/ \E s \in Slots : RetryTimerFires(s)
  \/ \E input \in SaveInputs : ClientSave(input)
  \/ \E cardData \in CreateInputs : ClientCreate(cardData)

\* requests settle and timers fire
RetrySpec == InitRetry /\ [][NextRetry]_vars /\ WF_vars(Settle)

\* ---- the hook is torn down while calls are awaiting --------------------
\* the component unmounts: the cleanups of the effects remove the listeners,
\* clear the refresh interval and clear the timer retryTimeoutRef holds.
\* What is in flight or waiting on another timer goes on.
Unmount ==
  /\ Event
  /\ mounted' = FALSE
  /\ tasks' = clearRetryTimeout(tasks)
  /\ lastOp' = Op("unmount", "none", 0, NoArg)
  /\ remoteCalls' = <<>>
  /\ UNCHANGED <<genVars, envVars, hCards, loading, error, isOnline,
                 lastSyncTime, dashVars>>

InitTeardown ==
  /\ GenIdle
  /\ events = MaxTeardownEvents
  \* every call of a client may fail once
  /\ faults = MaxTeardownEvents - 1
  /\ InitEnv
  /\ navOnline
  /\ DashIdle
  /\ \E rs \in LoadDraws :
       InitHookFrom(mountHook(FreshHook(<<>>, <<>>), navOnline, rs))

NextTeardown ==
  \/ Unmount
  \/ \E s \in Slots : OpSucceeds(s)
  \/ \E s \in Slots : OpFails(s)
  \/ \E s \in Slots : LoadFetched(s)
  \/ \E s \in Slots : LoadFetchFails(s)
  \/ \E s \in Slots : RetryTimerFires(s)
  \/ \E input \in SaveInputs : ClientSave(input)

TeardownSpec == InitTeardown /\ [][NextTeardown]_vars

(***************************************************************************)
(* Properties                                                              *)
(***************************************************************************)
\* C1: when the browser comes back online with a non-empty offline queue,
\* handleOnline starts a cardService.saveCards call with the cards of every
\* queued 'save' entry.
C1_ReplaySendsQueuedSaves ==
  [][(lastOp'.name = "handleOnline" /\ lsQueue # <<>>)
       => \A i \in DOMAIN lsQueue :
            \E j \in DOMAIN remoteCalls' :
              remoteCalls'[j] = Call("saveCards", lsQueue[i].cards,
                                     NoId)]_vars

\* C2: when the remote fetch of a load fails while the local snapshot holds
\* two cards, loadCardsFromFirebase returns exactly those two cards, each
\* with fresh data (benchmark > 0).
C2_FailedFetchReturnsSnapshot ==
  [][(/\ lastOp'.name = "loadReturned"
      /\ lastOp'.kind = "fetchFailed"
      /\ Len(lsCards) = 2)
       => /\ Len(lastOp'.arg.cards) = 2
          /\ \A i \in 1 .. 2 :
               /\ Meta(lastOp'.arg.cards[i]) = Meta(lsCards[i])
               /\ lastOp'.arg.cards[i].data.benchmark > 0]_vars

\* C3: a saveCardsToFirebase called while offline makes no remote call and
\* leaves the remote store alone; it appends exactly one entry to the end
\* of the offline queue, a 'save' with the valid cards of its argument and
\* the time of the call, and leaves the entries before it unchanged.
C3_OfflineSaveQueuesOneEntry ==
  [][(lastOp'.name = "saveCardsToFirebase" /\ lastOp'.kind = "offline")
       => /\ remoteCalls' = <<>>
          /\ remote' = remote
          /\ \A s \in Slots : tasks'[s] = tasks[s]
          /\ Len(lsQueue') = Len(lsQueue) + 1
          /\ SubSeq(lsQueue', 1, Len(lsQueue)) = lsQueue
          /\ lsQueue'[Len(lsQueue')] =
               [action |-> "save",
                cards |-> SelectSeq(SaveInput(lastOp'.arg.str),
                                    LAMBDA c :
                                      /\ isValidCardTitle(c.title)
                                      /\ isValidCardType(c.type)),
                timestamp |-> now]]_vars

\* C3's case: a second offline save, of a list with invalid cards, has put
\* its entry behind the first one
C3_Witness ==
  /\ lastOp.name = "saveCardsToFirebase"
  /\ lastOp.kind = "offline"
  /\ lastOp.arg.str = "mixed"
  /\ Len(lsQueue) = 2
  /\ Len(lsQueue[2].cards) = 1

\* C4: a createCard, updateCard or deleteCard whose remote operation fails
\* on every attempt rejects with CREATE_CARD_ERROR, UPDATE_CARD_ERROR or
\* DELETE_CARD_ERROR after retryAttempts invocations, and the rejection
\* leaves the in-memory collection as it is: the optimistic change, applied
\* when the function was called, is not taken back.
C4_FailedCallKeepsOptimisticChange ==
  [][/\ (lastOp'.name = "rejected"
         /\ lastOp'.kind \in {"create", "update", "delete"})
          => /\ hCards' = hCards
             /\ lastOp'.calls = retryAttempts
             /\ error' = (CASE lastOp'.kind = "create" -> "CREATE_CARD_ERROR"
                            [] lastOp'.kind = "update" -> "UPDATE_CARD_ERROR"
                            [] OTHER -> "DELETE_CARD_ERROR")
     /\ (lastOp'.name = "createCard" /\ lastOp'.kind = "added")
          => /\ Len(hCards') = Len(hCards) + 1
             /\ SubSeq(hCards', 1, Len(hCards)) = hCards
             /\ hCards'[Len(hCards')].id = lastOp'.arg.id
     /\ lastOp'.name = "deleteCard"
          => /\ lastOp'.arg.id \notin Ids(hCards')
             /\ hCards' = SelectSeq(hCards, LAMBDA c : c.id # lastOp'.arg.id)
     /\ lastOp'.name = "updateCard"
          => /\ Len(hCards') = Len(hCards)
             /\ \A i \in DOMAIN hCards :
                  IF hCards[i].id # lastOp'.arg.id
                    THEN hCards'[i] = hCards[i]
                    ELSE /\ lastOp'.arg.updates.hasTitle
                              => hCards'[i].title = lastOp'.arg.updates.title
                         /\ lastOp'.arg.updates.hasPosition
                              => hCards'[i].position =
                                   lastOp'.arg.updates.position]_vars

\* C4's case: a createCard has been rejected after its last attempt and the
\* card it added is still in the collection
C4_Witness ==
  /\ lastOp.name = "rejected"
  /\ lastOp.kind = "create"
  /\ error = "CREATE_CARD_ERROR"
  /\ Len(hCards) = 1
  /\ \A s \in Slots : tasks[s].kind # "create"

\* C5: withRetry invokes its operation one attempt at a time and at most
\* retryAttempts times; it stops at the first success; when every attempt
\* fails it has invoked the operation exactly retryAttempts times and the
\* caller's catch block runs (the error is set); and, the requests settling
\* and the delay timers firing, every call comes to an end.
C5_WithRetryBounded ==
  /\ [](\A s \in Slots :
          /\ tasks[s].inflight <= 1
          /\ tasks[s].calls <= retryAttempts
          /\ tasks[s].pc = "delay" => tasks[s].inflight = 0)
  /\ [][/\ lastOp'.name = "rejected"
             => lastOp'.calls = retryAttempts /\ error' # NoError
        /\ lastOp'.name = "delayed" => lastOp'.calls < retryAttempts
        /\ (lastOp'.name = "resolved" /\ lastOp'.kind # "update")
             => remoteCalls' = <<>>
        /\ lastOp'.name = "retry"
             => Len(remoteCalls') = 1 /\ lastOp'.calls <= retryAttempts]_vars
  /\ <>[](\A s \in Slots : tasks[s].kind = "idle")

\* C5's case: an operation succeeded at its last attempt, after two failures
C5_Witness ==
  /\ lastOp.name = "resolved"
  /\ lastOp.calls = retryAttempts

\* C6: the Dashboard's handleDeleteCard(id) removes exactly the card with
\* that id; the cards left keep their order, id, title, type and data and
\* get the positions 0..n-1.
C6_DeleteRemovesAndRenumbers ==
  [][lastOp'.name = "handleDeleteCard"
       => LET i == lastOp'.arg.num
          IN  /\ Len(dCards') = Len(dCards) - 1
              /\ dCards[i].id \notin Ids(dCards')
              /\ \A j \in DOMAIN dCards' :
                   LET old == dCards[IF j < i THEN j ELSE j + 1]
                   IN  /\ dCards'[j].position = j - 1
                       /\ dCards'[j].id = old.id
                       /\ dCards'[j].title = old.title
                       /\ dCards'[j].type = old.type
                       /\ dCards'[j].data = old.data]_vars

\* C6's case: the first of three cards has been deleted, the two behind it
\* have moved up
C6_Witness ==
  /\ lastOp.name = "handleDeleteCard"
  /\ lastOp.arg.num = 1
  /\ Len(dCards) = 2
  /\ dCards[1].id = <<"default", 2, 0>>
  /\ dCards[1].position = 0
  /\ dCards[2].position = 1

\* C7: in interchange mode moveCardUp and moveCardDown swap the position
\* values of the moved card and its neighbour; both keep id, title and
\* type, and the position of every other card is unchanged.
C7_MoveSwapsPositions ==
  [][lastOp'.name \in {"moveCardUp", "moveCardDown"}
       => LET i == lastOp'.arg.num
              j == IF lastOp'.name = "moveCardUp" THEN i - 1 ELSE i + 1
              after(id) == CHOOSE k \in DOMAIN dCards' : dCards'[k].id = id
          IN  /\ Ids(dCards') = Ids(dCards)
              /\ Len(dCards') = Len(dCards)
              /\ \A k \in DOMAIN dCards :
                   LET new == dCards'[after(dCards[k].id)]
                   IN  /\ new.title = dCards[k].title
                       /\ new.type = dCards[k].type
                       /\ new.position =
                            IF k = i THEN dCards[j].position
                            ELSE IF k = j THEN dCards[i].position
                            ELSE dCards[k].position]_vars

\* C8: saveCardsToFirebase hands to cardService.saveCards, and writes to
\* the local snapshot, only cards whose trimmed title has 1 to 50 characters
\* and whose type is one of the card types; the cards it leaves out stay in
\* the in-memory collection, which it does not change.
C8_SaveFiltersInvalidCards ==
  /\ [](/\ \A j \in DOMAIN remoteCalls :
             remoteCalls[j].fn = "saveCards"
               => \A k \in DOMAIN remoteCalls[j].cards :
                    /\ Len(trim(remoteCalls[j].cards[k].title)) \in 1 .. 50
                    /\ remoteCalls[j].cards[k].type \in CardType
        /\ \A s \in Slots :
             tasks[s].kind = "save"
               => \A k \in DOMAIN tasks[s].cards :
                    /\ Len(trim(tasks[s].cards[k].title)) \in 1 .. 50
                    /\ tasks[s].cards[k].type \in CardType)
  /\ [][(\/ lastOp'.name = "saveCardsToFirebase"
         \/ lastOp'.name = "resolved" /\ lastOp'.kind = "save"
         \/ lastOp'.name = "rejected" /\ lastOp'.kind = "save")
          => /\ hCards' = hCards
             /\ lsCards' # lsCards
                  => \A k \in DOMAIN lsCards' :
                       /\ Len(trim(lsCards'[k].title)) \in 1 .. 50
                       /\ lsCards'[k].type \in CardType]_vars

\* C8's case: a save of four cards of which three are invalid has started
\* a cardService.saveCards call with the valid one
C8_Witness ==
  /\ lastOp.name = "saveCardsToFirebase"
  /\ lastOp.kind = "online"
  /\ lastOp.arg.str = "mixed"
  /\ Len(remoteCalls) = 1
  /\ remoteCalls[1].fn = "saveCards"
  /\ Len(remoteCalls[1].cards) = 1

\* C9: a refresh tick (the hook's refreshData, the Dashboard's
\* updateAllCardData) replaces the data of the cards and nothing else: the
\* number of cards, their order and the id, title, type and position of
\* each stay as they were.
C9_RefreshKeepsCards ==
  [][/\ lastOp'.name = "refreshData"
          => /\ Len(hCards') = Len(hCards)
             /\ \A i \in DOMAIN hCards : Meta(hCards'[i]) = Meta(hCards[i])
             /\ dCards' = dCards
     /\ lastOp'.name = "updateAllCardData"
          => /\ Len(dCards') = Len(dCards)
             /\ \A i \in DOMAIN dCards : Meta(dCards'[i]) = Meta(dCards[i])
             /\ hCards' = hCards]_vars

\* C9's case: a tick of the Dashboard has given its three cards new data
C9_Witness ==
  /\ lastOp.name = "updateAllCardData"
  /\ Len(dCards) = 3
  /\ dCards[1].data.actual > 10 * Unit

\* C10: calculateAchievementPercentage is benchmark / actual * 100 for
\* 'energy' and actual / benchmark * 100 for every other type, rounded to
\* one decimal (Infinity or NaN when the divisor is 0), and generateKPIData
\* sets percentage to that value for the actual and benchmark it generated.
C10_PercentageIsRoundedRatio ==
  /\ calc.done =>
       LET num == IF calc.type = "energy" THEN calc.benchmark ELSE calc.actual
           den == IF calc.type = "energy" THEN calc.actual ELSE calc.benchmark
           p == calc.result
       IN  IF den = 0
             THEN p = (IF num = 0 THEN NaNValue ELSE PosInfinity)
             ELSE /\ p % 10 = 0
                  /\ (p - 5) * den <= 100 * 100 * num
                  /\ 100 * 100 * num < (p + 5) * den
  /\ generated.done =>
       LET num == IF generated.type = "energy" THEN generated.benchmark
                                                 ELSE generated.actual
           den == IF generated.type = "energy" THEN generated.actual
                                                 ELSE generated.benchmark
           p == generated.percentage
       IN  /\ den > 0
           /\ p % 10 = 0
           /\ (p - 5) * den <= 100 * 100 * num
           /\ 100 * 100 * num < (p + 5) * den

\* C10's case: an energy card that used 0.57 against a benchmark of 0.40
\* achieves 70.2, the benchmark over the actual value
C10_Witness ==
  /\ calc.done
  /\ calc.type = "energy"
  /\ calc.actual = 57
  /\ calc.benchmark = 40
  /\ calc.result = 7020

\* C11: for every supported card type, every point that
\* kpiDataGenerator.generateKPIData returns has actual >= 0, benchmark > 0
\* and a finite percentage (neither Infinity nor NaN).
C11_GeneratedPointInContract ==
  generated.done =>
    /\ generated.type \in CardType
    /\ generated.actual >= 0
    /\ generated.benchmark > 0
    /\ generated.percentage # PosInfinity
    /\ generated.percentage # NaNValue
    /\ generated.percentage >= 0

\* C11's case: the smallest divisor the generator can draw, an energy
\* consumption of 0.40 against a benchmark of 0.70, gives 175.0
C11_Witness ==
  /\ generated.done
  /\ generated.type = "energy"
  /\ generated.actual = 40
  /\ generated.benchmark = 70
  /\ generated.percentage = 175 * Unit

\* C12: the facade's generateKPIData returns exactly {actual: 0,
\* benchmark: 1, percentage: 0} for an invalid card type or an invalid
\* period, and whenever the generator's point has a NaN, negative or
\* non-finite actual, benchmark or percentage; otherwise it returns the
\* generator's point, so what it returns is always a point of valid values.
C12_FacadeFallsBack ==
  facadePoint.done =>
    LET r == facadePoint.result
        raw == facadePoint.raw
        fallback == [actual |-> 0, benchmark |-> 1 * Unit, percentage |-> 0]
        \* NaN and Infinity are encoded below zero
        OutOfContract(x) == x < 0
    IN  /\ facadePoint.type \notin CardType => r = fallback
        /\ facadePoint.period \notin TimePeriod => r = fallback
        /\ (facadePoint.type \in CardType /\ facadePoint.period \in TimePeriod)
             => IF \/ OutOfContract(raw.actual)
                   \/ OutOfContract(raw.benchmark)
                   \/ OutOfContract(raw.percentage)
                  THEN r = fallback
                  ELSE r = raw
        /\ r.actual >= 0 /\ r.benchmark >= 0 /\ r.percentage >= 0

\* C12's case: asked for a coils card over a period that does not exist,
\* the facade drops the point the generator would give and falls back
C12_Witness ==
  /\ facadePoint.done
  /\ facadePoint.type = "coils"
  /\ facadePoint.period = "yearly"
  /\ facadePoint.raw.actual = 15 * Unit
  /\ facadePoint.result = [actual |-> 0, benchmark |-> 1 * Unit,
                           percentage |-> 0]

\* C13: every generated hourly value lies in the range of its card type:
\* tons actual in [150, 450] and benchmark in [250, 500], coils actual in
\* 10..15 and benchmark in 12..20, shipped actual in 8..14 and benchmark in
\* 10..18, custom actual in 50..100 and benchmark in 70..90, the values of
\* coils, shipped and custom and the tons benchmark being integers and the
\* tons actual a multiple of 0.1.
C13_GeneratedValuesInRange ==
  generated.done =>
    LET a == generated.actual
        b == generated.benchmark
        Within(x, lo, hi) == lo * Unit <= x /\ x <= hi * Unit
        Whole(x) == x % Unit = 0
    IN  /\ generated.type = "tons" =>
             /\ Within(a, 150, 450) /\ a % 10 = 0
             /\ Within(b, 250, 500) /\ Whole(b)
        /\ generated.type = "coils" =>
             /\ Within(a, 10, 15) /\ Whole(a)
             /\ Within(b, 12, 20) /\ Whole(b)
        /\ generated.type = "shipped" =>
             /\ Within(a, 8, 14) /\ Whole(a)
             /\ Within(b, 10, 18) /\ Whole(b)
        /\ generated.type = "custom" =>
             /\ Within(a, 50, 100) /\ Whole(a)
             /\ Within(b, 70, 90) /\ Whole(b)

\* C13's case: the largest draws give a tons card 15 coils of 30.0 tons,
\* 450 tons an hour, against a benchmark of 500
C13_Witness ==
  /\ generated.done
  /\ generated.type = "tons"
  /\ generated.actual = 450 * Unit
  /\ generated.benchmark = 500 * Unit

\* C14: convertToPeriod(h, period) is h times the period's multiplier - 24
\* for 'daily', 168 for 'weekly', 720 for 'monthly' - rounded to one
\* decimal.
C14_ConvertToPeriodIsRoundedProduct ==
  (converted.done /\ converted.period \in TimePeriod) =>
    LET multiplier == CASE converted.period = "daily" -> 24
                        [] converted.period = "weekly" -> 168
                        [] converted.period = "monthly" -> 720
        exact == converted.hourlyValue * multiplier
        p == converted.result
    IN  /\ p % 10 = 0
        /\ p - 5 <= exact
        /\ exact < p + 5

\* C14's case: 0.57 an hour is 95.76 a week, which is shown as 95.8
C14_Witness ==
  /\ converted.done
  /\ converted.hourlyValue = 57
  /\ converted.period = "weekly"
  /\ converted.result = 9580

\* C15: formatPercentage puts every percentage in exactly one band -
\* 'excellent' when >= 100, 'good' when >= 80 and < 100, 'average' when
\* >= 60 and < 80, 'poor' otherwise (NaN included) - and the colour is
\* the one colour constant of that status.
C15_PercentageBands ==
  formatted.done =>
    LET p == formatted.percentage
        finite == p >= 0
    IN  /\ formatted.status \in {"excellent", "good", "average", "poor"}
        /\ formatted.status = "excellent"
             <=> (p = PosInfinity \/ (finite /\ p >= 100 * Unit))
        /\ formatted.status = "good"
             <=> (finite /\ p >= 80 * Unit /\ p < 100 * Unit)
        /\ formatted.status = "average"
             <=> (finite /\ p >= 60 * Unit /\ p < 80 * Unit)
        /\ formatted.status = "poor"
             <=> (p = NaNValue \/ (finite /\ p < 60 * Unit))
        /\ formatted.color =
             (CASE formatted.status = "excellent" -> "#4caf50"
                [] formatted.status = "good" -> "#8bc34a"
                [] formatted.status = "average" -> "#ff9800"
                [] formatted.status = "poor" -> "#f44336")

\* C15's case: exactly 100 is excellent and green
C15_Witness ==
  /\ formatted.done
  /\ formatted.percentage = 100 * Unit
  /\ formatted.status = "excellent"
  /\ formatted.color = "#4caf50"

\* C16 as stated: a percentage of 99.9 is not classified 'good'.
C16_NearHundredIsNotGood ==
  (formatted.done /\ formatted.percentage = 9990) => formatted.status # "good"

\* C16 as amended: at the band edges 99.9 is 'good' (it is 'excellent'
\* that needs 100 or more), 100 is 'excellent', 80 is 'good', 79.9 is
\* 'average', 60 is 'average' and 59.9 is 'poor'.
C16_BandEdges ==
  formatted.done =>
    /\ formatted.percentage = 100 * Unit => formatted.status = "excellent"
    /\ formatted.percentage = 9990 => formatted.status = "good"
    /\ formatted.percentage = 80 * Unit => formatted.status = "good"
    /\ formatted.percentage = 7990 => formatted.status = "average"
    /\ formatted.percentage = 60 * Unit => formatted.status = "average"
    /\ formatted.percentage = 5990 => formatted.status = "poor"

\* C16's case: 99.9, shown as 100%, is in the band 'good'
C16_Witness ==
  /\ formatted.done
  /\ formatted.percentage = 9990
  /\ formatted.value = 100 * Unit
  /\ formatted.status = "good"

C18_PositionsContiguous ==
  /\ {hCards[i].position : i \in DOMAIN hCards} = 0 .. (Len(hCards) - 1)
  /\ \A i, j \in DOMAIN hCards :
       hCards[i].position = hCards[j].position => i = j

\* C19: on reconnect the queued saves are applied to the remote store in
\* the order they were enqueued: once the replay has finished (no save of
\* the replay is awaiting), every card of the last enqueued save is in the
\* remote store with that save's title, type and position.
C19_ReplayLastWriteWins ==
  [][(/\ lastOp'.name = "handleOnline"
      /\ lsQueue # <<>>
      /\ \A s \in Slots :
           ~(tasks'[s].kind = "save" /\ tasks'[s].caller = "replay"))
       => LET last == ValidCards(lsQueue[Len(lsQueue)].cards)
          IN  \A i \in DOMAIN last :
                /\ last[i].id \in DOMAIN remote'
                /\ remote'[last[i].id].title = last[i].title
                /\ remote'[last[i].id].type = last[i].type
                /\ remote'[last[i].id].position = last[i].position]_vars

\* C20: a retry delay that is pending when the hook is torn down does not
\* fire: the teardown is never followed by the start of a further attempt
\* of an operation that was waiting in its delay, also when two or more
\* operations were waiting at the same time.
C20_NoRetryAfterTeardown ==
  [][lastOp.name = "unmount" => lastOp'.name # "retry"]_vars

\* C21: every card in the facade's collection has a title of 1 to 50
\* characters after trimming, after any sequence of createCard and
\* updateCard calls.
C21_TitlesStayValid ==
  \A i \in DOMAIN hCards :
    /\ Len(trim(hCards[i].title)) >= 1
    /\ Len(trim(hCards[i].title)) <= 50


\* the ids of a list of cards are pairwise distinct
DistinctIds(cards) ==
  \A i, j \in DOMAIN cards : cards[i].id = cards[j].id => i = j

\* C22: the cards of the facade's collection and the cards of the dashboard's
\* collection have pairwise distinct ids after any sequence of creations,
\* also when two creations read the same clock millisecond.
C22_IdsPairwiseDistinct ==
  /\ DistinctIds(hCards)
  /\ DistinctIds(dCards)


\* C23: the value a mounted KPI card shows is formatUtils.formatValue of its
\* hourly value, its type and its period: percent for yield, efficiency and
\* quality, MWh/ton for energy, and period-scaled only for the other types.
C23_CardShowsFormatValue ==
  kpiCard.mounted =>
    actualValueText(kpiCard)
      = formatValue(kpiCard.currentData.actual, kpiCard.type, kpiCard.period)

\* C29: after each refresh of a card the trend compares the new actual value
\* with the actual value of the refresh immediately before it.
C29_TrendComparesWithPrecedingRefresh ==
  (kpiCard.mounted /\ kpiCard.refreshes >= 1) =>
    kpiCard.trend = Trend(kpiCard.data.actual, kpiCard.before)


\* C25: a load started after a reload never returns a card that
\* handleDeleteCard deleted in the dashboard and whose save had completed
\* before the reload.
C25_DeletedCardStaysDeleted ==
  lastOp.name = "loadReturned" =>
    \A i \in DOMAIN lastOp.arg.cards :
      lastOp.arg.cards[i].id \notin deleted.reloaded


\* C26: when the cardService.createCard of an online createCard resolves,
\* the document it stored has the id the facade gave the local card (the id
\* createCard returns), so that updateCard and deleteCard reach it.
C26_LocalIdIsRemoteId ==
  [][(lastOp'.name = "resolved" /\ lastOp'.kind = "create") =>
       \E s \in Slots :
         /\ tasks[s].kind = "create"
         /\ tasks[s].pc = "op"
         /\ tasks[s].cardId \in DOMAIN remote'
         /\ remote'[tasks[s].cardId].isActive]_vars


\* C27: between page loads, a card that handleCreateCard added (an id made
\* of a timestamp) leaves the dashboard's collection only by handleDeleteCard,
\* and the handleCreateCard step itself drops none of the cards shown.
C27_CreatedCardsStay ==
  [][/\ lastOp'.name \notin {"handleDeleteCard", "mount"} =>
          \A id \in Ids(dCards) : id[1] = "card-" => id \in Ids(dCards')
     /\ lastOp'.name = "handleCreateCard" =>
          Ids(dCards) \subseteq Ids(dCards')]_vars


\* C28: a loadCardsFromFirebase whose remote fetch failed leaves the
\* local-storage snapshot of the cards as it was.
C28_FailedLoadKeepsSnapshot ==
  [][(lastOp'.name = "loadReturned" /\ lastOp'.kind = "fetchFailed") =>
       lsCards' = lsCards]_vars


\* C30: the modal is never at its confirm step with the custom type and a
\* blank custom title, and every card it hands to onCreate has a title of 1
\* to 50 characters after trimming.
C30_ModalHandsOverValidTitles ==
  /\ (modal.open /\ modal.step = "confirm" /\ modal.selectedType = "custom")
       => trim(modal.customTitle) # <<>>
  /\ modal.handed.done =>
       /\ Len(trim(modal.handed.title)) >= 1
       /\ Len(trim(modal.handed.title)) <= MaxTitleLength

\* a custom card with a trimmed title was handed over, and the modal is
\* again at its confirm step with the custom type
C30_Witness ==
  /\ modal.handed.done
  /\ modal.handed.type = "custom"
  /\ modal.handed.title = TitleA
  /\ modal.open
  /\ modal.step = "confirm"
  /\ modal.selectedType = "custom"
  /\ modal.customTitle = TitlePadded


\* the intervals an owner has scheduled
ScheduledBy(owner) == {p \in timers.scheduled : p[2] = owner}

====
